---- MODULE Spec2Model ----
(***************************************************************************)
(* A model of the codex-redis storage engine: the RESP codec               *)
(* (crates/codex-redis/src/resp.rs), the command dispatcher with its       *)
(* key space, expiration table, append-only log and sweeper                *)
(* (crates/codex-redis/src/lib.rs) and the vector index                    *)
(* (crates/codex-redis-vector/src/index.rs).                               *)
(*                                                                         *)
(* Text and bytes are sequences of one-character strings, so that          *)
(* formatting, parsing and framing are computed character by character.    *)
(* An Option<T> is a sequence of at most one element: None is << >> and    *)
(* Some(x) is <<x>>.                                                       *)
(***************************************************************************)
EXTENDS Integers, Sequences, FiniteSets, TLC

VARIABLES
    \* ---- the store (struct Inner) and its environment
    store,        \* Inner.store: key -> Value
    expires,      \* Inner.expires: key -> deadline (an Instant, in ms)
    vectors,      \* Inner.vectors: index name -> Index
    aof,          \* Inner.aof: whether the log handle is Some(file)
    disk,         \* the file at aof_path: the chunks appended by write_all
    snaps,        \* the vec_<name>.hnsw files beside it: name -> dumped Index
    pubsub,       \* Inner.pubsub: channel -> its broadcast channel
    poisoned,     \* the mutexes of Inner poisoned by a panic under their guard
    sweeper,      \* whether the sweeper thread is still running
    now,          \* Instant::now(), in ms
    last,         \* the last call of execute: its argv and what came of it
    given,        \* key -> the duration last handed to EXPIRE/PEXPIRE, in ms
    heard,        \* what was published on each channel, and what each
                  \* receiver handed out by subscribe has received
    conn,         \* one connection of handle_socket: the bytes in its buffer,
                  \* the replies written to it, its mode, its reads so far
    thr,          \* the threads at work inside the store: where each client
                  \* thread and the sweeper stand, and the files of a compaction
    \* ---- the codec under test
    msg,          \* the message handed to encode
    wire,         \* the bytes handed to parse
    res,          \* what parse returned
    cpc           \* the position of the codec run

vars == <<store, expires, vectors, aof, disk, snaps, pubsub, poisoned, sweeper,
          now, last, given, heard, conn, thr, msg, wire, res, cpc>>

storeVars == <<store, expires, vectors, aof, disk, snaps, pubsub, poisoned,
               sweeper, now, last, given, heard, conn, thr>>
codecVars == <<msg, wire, res, cpc>>
sideVars == <<conn, thr>>

(***************************************************************************)
(* Bounds of the model.                                                    *)
(***************************************************************************)
\* Width in bits of the model's i64/u64/isize/usize and of Instant's seconds.
\* The program's 64 is scaled down so that every value fits TLC's integers;
\* wrap-around and overflow are computed at this width.
WordBits == 16
\* Longest Simple/Error/Bulk content of a generated message.
MaxText == 2
\* Longest generated Array.
MaxArr == 2
\* The clock stops advancing after this many seconds.
MaxSec == 1
\* The clock advances in steps of this many ms.
TickMs == 500
\* Most frames the log may hold before mutating commands stop being issued.
MaxLog == 3
\* The same for the histories that rewrite the log by compaction.
MaxLogCompact == 4
\* The capacity handed to broadcast::channel, 100 at lib.rs:612, scaled.
ChanCap == 2
\* The most messages published, and the most receivers handed out.
MaxPub == 3
MaxSubs == 2
\* The most reads of a connection.
MaxReads == 3
\* The most commands one client thread issues.
MaxCalls == 2
\* The reads of a connection whose requests arrive in pieces.
MaxChunks == 4
\* The longest byte string handed to parse as it comes.
MaxBytes == 5

(***************************************************************************)
(* Option                                                                  *)
(***************************************************************************)
None == << >>
EmptyMap == << >>
Some(x) == <<x>>
IsSome(o) == Len(o) = 1
Unwrap(o) == o[1]

(***************************************************************************)
(* Text: to_string, parse::<i64>, to_uppercase                             *)
(***************************************************************************)
CR == "\r"
LF == "\n"
CRLF == <<CR, LF>>

Digits == <<"0", "1", "2", "3", "4", "5", "6", "7", "8", "9">>
IsDigit(c) == \E i \in 1..10 : Digits[i] = c
DigitVal(c) == (CHOOSE i \in 1..10 : Digits[i] = c) - 1

LowerChars == <<"a", "b", "c", "d", "e", "f", "g", "h", "i", "j", "k", "l", "m",
                "n", "o", "p", "q", "r", "s", "t", "u", "v", "w", "x", "y", "z">>
UpperChars == <<"A", "B", "C", "D", "E", "F", "G", "H", "I", "J", "K", "L", "M",
                "N", "O", "P", "Q", "R", "S", "T", "U", "V", "W", "X", "Y", "Z">>

\* char::to_uppercase on the ASCII letters; every other character is kept.
UpperChar(c) ==
    IF \E i \in 1..26 : LowerChars[i] = c
    THEN UpperChars[CHOOSE i \in 1..26 : LowerChars[i] = c]
    ELSE c

to_uppercase(s) == [i \in 1..Len(s) |-> UpperChar(s[i])]

Pow2(n) == 2 ^ n
\* i64::MAX, i64::MIN and u64::MAX + 1 at the model's width.
IMax == Pow2(WordBits - 1) - 1
IMin == 0 - Pow2(WordBits - 1)
UMod == Pow2(WordBits)

\* `x as u64` for an i64 x: two's complement reinterpretation.
AsUnsigned(x) == x % UMod
\* `x as i64` for a u64 x.
AsSigned(x) == IF x > IMax THEN x - UMod ELSE x

RECURSIVE NatToString(_)
NatToString(n) ==
    IF n < 10 THEN <<Digits[n + 1]>>
    ELSE NatToString(n \div 10) \o <<Digits[(n % 10) + 1]>>

\* i64::to_string, usize::to_string, u32::to_string
to_string(n) == IF n < 0 THEN <<"-">> \o NatToString(0 - n) ELSE NatToString(n)

\* The digits of s as a number, saturating just above `cap`.
RECURSIVE DigitsValue(_, _, _)
DigitsValue(s, acc, cap) ==
    IF s = << >> THEN acc
    ELSE IF acc > cap THEN acc
    ELSE DigitsValue(Tail(s), acc * 10 + DigitVal(Head(s)), cap)

\* str::parse for an integer type with range lo..hi: an optional sign, then
\* one or more decimal digits, and the value within range. None is Err.
ParseIntIn(s, lo, hi) ==
    LET neg == s # << >> /\ Head(s) = "-"
        signed == s # << >> /\ Head(s) \in {"-", "+"}
        ds == IF signed THEN Tail(s) ELSE s
        mag == DigitsValue(ds, 0, hi + 1)
    IN  IF ds = << >> \/ \E i \in 1..Len(ds) : ~IsDigit(ds[i]) THEN None
        ELSE IF neg /\ lo >= 0 /\ mag > 0 THEN None
        ELSE IF neg THEN (IF 0 - mag < lo THEN None ELSE Some(0 - mag))
        ELSE IF mag > hi THEN None ELSE Some(mag)

ParseI64(s) == ParseIntIn(s, IMin, IMax)
ParseIsize(s) == ParseIntIn(s, IMin, IMax)
ParseUsize(s) == ParseIntIn(s, 0, UMod - 1)
ParseU32(s) == ParseIntIn(s, 0, UMod - 1)

\* Option::unwrap_or
unwrap_or(o, d) == IF IsSome(o) THEN Unwrap(o) ELSE d

(***************************************************************************)
(* resp.rs: enum Resp, encode, parse, parse_stream, find_crlf              *)
(***************************************************************************)
Simple(s) == [t |-> "Simple", v |-> <<s>>]
Error(s) == [t |-> "Error", v |-> <<s>>]
Integer(i) == [t |-> "Integer", v |-> <<i>>]
\* Bulk(o) and Array(o) take an Option.
Bulk(o) == [t |-> "Bulk", v |-> o]
Array(o) == [t |-> "Array", v |-> o]

RECURSIVE Concat(_)
Concat(ss) == IF ss = << >> THEN << >> ELSE Head(ss) \o Concat(Tail(ss))

\* A faulty Bulk(Some(b)) arm that forgets the terminator after the payload;
\* the round trip has to tell it from the real one.
encode_bulk_unterminated(b) == <<"$">> \o to_string(Len(b)) \o CRLF \o b

\* resp.rs:33-40, the Bulk(Some(b)) arm of encode.
encode_bulk(b) == <<"$">> \o to_string(Len(b)) \o CRLF \o b \o CRLF

RECURSIVE encode(_)
encode(m) ==
    CASE m.t = "Simple" -> <<"+">> \o m.v[1] \o CRLF
      [] m.t = "Error" -> <<"-">> \o m.v[1] \o CRLF
      [] m.t = "Integer" -> <<":">> \o to_string(m.v[1]) \o CRLF
      [] m.t = "Bulk" /\ IsSome(m.v) -> encode_bulk(m.v[1])
      [] m.t = "Bulk" /\ ~IsSome(m.v) -> <<"$", "-", "1">> \o CRLF
      [] m.t = "Array" /\ IsSome(m.v) ->
            <<"*">> \o to_string(Len(m.v[1])) \o CRLF
                \o Concat([i \in 1..Len(m.v[1]) |-> encode(m.v[1][i])])
      [] m.t = "Array" /\ ~IsSome(m.v) -> <<"*", "-", "1">> \o CRLF

\* The 0-based position of the first "\r\n" in buf, or None.
find_crlf(buf) ==
    LET hits == {i \in 1..(Len(buf) - 1) : buf[i] = CR /\ buf[i + 1] = LF}
    IN  IF hits = {} THEN None
        ELSE Some((CHOOSE i \in hits : \A j \in hits : i <= j) - 1)

\* input[from..to) with 0-based offsets, as a Rust slice.
Slice(input, from, to) == SubSeq(input, from + 1, to)
From(input, from) == SubSeq(input, from + 1, Len(input))

\* The outcomes of parse: Ok((msg, used)), Err(UnexpectedEof), Err(InvalidData),
\* and a panic (an arithmetic overflow or a slice out of range).
POk(m, used) == [tag |-> "ok", m |-> <<m>>, used |-> used]
PEof == [tag |-> "eof", m |-> << >>, used |-> 0]
PInvalid == [tag |-> "invalid", m |-> << >>, used |-> 0]
PPanic == [tag |-> "panic", m |-> << >>, used |-> 0]

\* A text line is bytes; the model's alphabet below 0x80 is all valid UTF-8,
\* and BadByte stands for a byte that is not.
BadByte == "0xFF"
ValidUtf8(bytes) == \A i \in 1..Len(bytes) : bytes[i] # BadByte

\* The items of an array of `len` elements starting at `offset`: parse's loop
\* at resp.rs:124-128. Returns the outcome for the whole array.
RECURSIVE parse(_)
RECURSIVE parse_items(_, _, _, _)
parse_items(input, offset, left, items) ==
    IF left = 0 THEN POk(Array(Some(items)), offset)
    ELSE LET r == parse(From(input, offset))
         IN  IF r.tag # "ok" THEN r
             ELSE parse_items(input, offset + r.used, left - 1,
                              Append(items, r.m[1]))

\* A faulty '$' arm that reports a payload not yet complete as malformed; the
\* handling of partial frames has to tell it from the real one.
parse_bulk_rejecting(input) ==
    LET p == find_crlf(From(input, 1))
    IN  IF ~IsSome(p) THEN PEof
        ELSE LET pos == p[1]
                 text == Slice(input, 1, 1 + pos)
                 n == IF ValidUtf8(text) THEN ParseIsize(text) ELSE None
                 header == 1 + pos + 2
             IN  IF ~IsSome(n) THEN PInvalid
                 ELSE IF n[1] = -1 THEN POk(Bulk(None), header)
                 ELSE LET len == AsUnsigned(n[1])
                      IN  IF header + len + 2 >= UMod THEN PPanic
                          ELSE IF Len(input) < header + len + 2 THEN PInvalid
                          ELSE IF Slice(input, header + len, header + len + 2) # CRLF
                               THEN PInvalid
                          ELSE POk(Bulk(Some(Slice(input, header, header + len))),
                                   header + len + 2)

\* resp.rs:89-111, the '$' arm of parse.
parse_bulk(input) ==
    LET p == find_crlf(From(input, 1))
    IN  IF ~IsSome(p) THEN PEof
        ELSE LET pos == p[1]
                 text == Slice(input, 1, 1 + pos)
                 n == IF ValidUtf8(text) THEN ParseIsize(text) ELSE None
                 header == 1 + pos + 2
             IN  IF ~IsSome(n) THEN PInvalid
                 ELSE IF n[1] = -1 THEN POk(Bulk(None), header)
                 ELSE LET len == AsUnsigned(n[1])
                      IN  IF header + len + 2 >= UMod THEN PPanic
                          ELSE IF Len(input) < header + len + 2 THEN PEof
                          ELSE IF Slice(input, header + len, header + len + 2) # CRLF
                               THEN PInvalid
                          ELSE POk(Bulk(Some(Slice(input, header, header + len))),
                                   header + len + 2)

parse_array(input) ==
    LET p == find_crlf(From(input, 1))
    IN  IF ~IsSome(p) THEN PEof
        ELSE LET pos == p[1]
                 text == Slice(input, 1, 1 + pos)
                 n == IF ValidUtf8(text) THEN ParseIsize(text) ELSE None
                 offset == 1 + pos + 2
             IN  IF ~IsSome(n) THEN PInvalid
                 ELSE IF n[1] = -1 THEN POk(Array(None), offset)
                 ELSE LET len == AsUnsigned(n[1])
                      \* Vec::with_capacity(len) aborts on a capacity overflow;
                      \* otherwise the loop ends at the first item that fails.
                      IN  IF len > IMax THEN PPanic
                          ELSE IF len > Len(input) THEN
                               parse_items(input, offset, Len(input) + 1, << >>)
                          ELSE parse_items(input, offset, len, << >>)

parse_line(input, kind) ==
    LET p == find_crlf(From(input, 1))
    IN  IF ~IsSome(p) THEN PEof
        ELSE LET pos == p[1]
                 text == Slice(input, 1, 1 + pos)
             IN  IF ~ValidUtf8(text) THEN PInvalid
                 ELSE IF kind = "Integer" THEN
                      (IF IsSome(ParseI64(text))
                       THEN POk(Integer(ParseI64(text)[1]), 1 + pos + 2)
                       ELSE PInvalid)
                 ELSE POk([t |-> kind, v |-> <<text>>], 1 + pos + 2)

parse(input) ==
    IF input = << >> THEN PEof
    ELSE CASE input[1] = "+" -> parse_line(input, "Simple")
           [] input[1] = "-" -> parse_line(input, "Error")
           [] input[1] = ":" -> parse_line(input, "Integer")
           [] input[1] = "$" -> parse_bulk(input)
           [] input[1] = "*" -> parse_array(input)
           [] OTHER -> PInvalid

\* Ok(frames) as Some(frames); any Err of parse as None (the ? at resp.rs:141).
RECURSIVE parse_stream_from(_, _)
parse_stream_from(input, out) ==
    IF input = << >> THEN [tag |-> "ok", frames |-> out]
    ELSE LET r == parse(input)
         IN  IF r.tag # "ok" THEN [tag |-> r.tag, frames |-> << >>]
             ELSE parse_stream_from(From(input, r.used), Append(out, r.m[1]))

parse_stream(input) == parse_stream_from(input, << >>)

(***************************************************************************)
(* index.rs: struct Index                                                  *)
(***************************************************************************)
Has(m, k) == k \in DOMAIN m
Put(m, k, v) == [x \in (DOMAIN m) \cup {k} |-> IF x = k THEN v ELSE m[x]]
Del(m, k) == [x \in (DOMAIN m) \ {k} |-> m[x]]

\* World::new of the small-world-rs crate, which is not part of this
\* repository: taken to accept every positive fan-out and search breadth.
WorldNewOk(m, efc) == m > 0 /\ efc > 0

\* Index::new. `world` is the graph: its nodes, in insertion order.
IndexNew(dim, m, efc) ==
    IF WorldNewOk(m, efc)
    THEN Some([dim |-> dim, m |-> m, ef_construction |-> efc,
               vectors |-> EmptyMap, world |-> << >>])
    ELSE None

\* A faulty add that inserts into the graph whether or not the id is there.
IndexAddReinserting(idx, id, vec) ==
    IF Len(vec) # idx.dim THEN None
    ELSE Some([idx EXCEPT !.world = Append(@, <<id, vec>>),
                          !.vectors = Put(@, id, vec)])

\* Index::add: Some(index) is Ok(()), with the index as it is afterwards;
\* None is Err("dimension mismatch"), with the index untouched.
IndexAdd(idx, id, vec) ==
    IF Len(vec) # idx.dim THEN None
    ELSE Some([idx EXCEPT
                 !.world = IF Has(idx.vectors, id) THEN @
                           ELSE Append(@, <<id, vec>>),
                 !.vectors = Put(@, id, vec)])

(***************************************************************************)
(* Text of the commands: split(','), parse::<f32>                          *)
(***************************************************************************)
\* str::split(sep): the pieces between the separators; "" gives one empty piece.
RECURSIVE SplitFrom(_, _, _, _)
SplitFrom(s, sep, cur, out) ==
    IF s = << >> THEN Append(out, cur)
    ELSE IF Head(s) = sep THEN SplitFrom(Tail(s), sep, << >>, Append(out, cur))
    ELSE SplitFrom(Tail(s), sep, Append(cur, Head(s)), out)

Split(s, sep) == SplitFrom(s, sep, << >>, << >>)

\* Drops the trailing zeros of a decimal mantissa with `frac` fraction digits.
RECURSIVE Normal(_, _)
Normal(mant, frac) ==
    IF frac > 0 /\ mant % 10 = 0 THEN Normal(mant \div 10, frac - 1)
    ELSE <<mant, frac>>

\* str::parse::<f32> on plain decimals: an optional sign, digits, an optional
\* point and more digits, with a digit on at least one side of the point. The
\* value is kept exactly, as <<mantissa, number of fraction digits>>.
ParseF32(s) ==
    LET signed == s # << >> /\ Head(s) \in {"-", "+"}
        body == IF signed THEN Tail(s) ELSE s
        dots == {i \in 1..Len(body) : body[i] = "."}
        int == IF dots = {} THEN body
               ELSE SubSeq(body, 1, (CHOOSE i \in dots : TRUE) - 1)
        fr == IF dots = {} THEN << >>
              ELSE SubSeq(body, (CHOOSE i \in dots : TRUE) + 1, Len(body))
        ds == int \o fr
        v == Normal(DigitsValue(ds, 0, IMax), Len(fr))
    IN  IF Cardinality(dots) > 1 \/ ds = << >>
           \/ \E i \in 1..Len(ds) : ~IsDigit(ds[i])
        THEN None
        ELSE Some(IF signed /\ Head(s) = "-" THEN <<0 - v[1], v[2]>> ELSE v)

\* cmd[3].split(',').filter_map(|s| s.parse().ok()).collect()
RECURSIVE FilterParsed(_)
FilterParsed(parts) ==
    IF parts = << >> THEN << >>
    ELSE (IF IsSome(ParseF32(Head(parts))) THEN <<ParseF32(Head(parts))[1]>>
          ELSE << >>) \o FilterParsed(Tail(parts))

ParseVec(s) == FilterParsed(Split(s, ","))

(***************************************************************************)
(* lib.rs: enum Value, struct Inner                                        *)
(***************************************************************************)
VString(s) == [t |-> "String", v |-> <<s>>]
VHash(h) == [t |-> "Hash", v |-> <<h>>]
VSet(S) == [t |-> "Set", v |-> <<S>>]

\* The store as one value: the fields of Inner and the file at aof_path.
St == [store |-> store, expires |-> expires, vectors |-> vectors, aof |-> aof,
       disk |-> disk, snaps |-> snaps, pubsub |-> pubsub, poisoned |-> poisoned]

\* Inner as Redis::new builds it at lib.rs:38-45, over the files d and sn.
Fresh(d, sn) ==
    [store |-> EmptyMap, expires |-> EmptyMap, vectors |-> EmptyMap,
     aof |-> FALSE, disk |-> d, snaps |-> sn, pubsub |-> EmptyMap,
     poisoned |-> {}]

\* What a call came to: the store afterwards and the reply, or a panic.
Ret(st, reply) == [st |-> st, reply |-> Some(reply), panicked |-> FALSE]
\* A panic under the guards `held` poisons those mutexes.
Panic(st, held) ==
    [st |-> [st EXCEPT !.poisoned = @ \cup held], reply |-> None,
     panicked |-> TRUE]

\* mutex.lock().unwrap() succeeds.
CanLock(st, m) == m \notin st.poisoned

WrongArgs == Error(<<"E", "R", "R", " ", "w", "r", "o", "n", "g", " ", "n", "u",
                     "m", "b", "e", "r", " ", "o", "f", " ", "a", "r", "g", "u",
                     "m", "e", "n", "t", "s">>)
OK == Simple(<<"O", "K">>)

\* read_to_end of the log file.
ReadToEnd(d) == Concat(d)

\* Redis::log: the argv as an Array of Bulk, appended by one write_all.
LogFrame(cmd) == Array(Some([i \in 1..Len(cmd) |-> Bulk(Some(cmd[i]))]))

log(st, cmd) ==
    IF ~CanLock(st, "aof") THEN Panic(st, {})
    ELSE IF st.aof
         THEN [st |-> [st EXCEPT !.disk = Append(@, encode(LogFrame(cmd)))],
               reply |-> None, panicked |-> FALSE]
         ELSE [st |-> st, reply |-> None, panicked |-> FALSE]

\* `if log { self.log(cmd); } reply`
LogThen(st, cmd, logging, reply) ==
    IF ~logging THEN Ret(st, reply)
    ELSE LET l == log(st, cmd)
         IN  IF l.panicked THEN l ELSE Ret(l.st, reply)

\* Redis::cleanup_key at time t.
cleanup_key(st, key, t) ==
    IF ~CanLock(st, "expires") THEN Panic(st, {})
    ELSE IF Has(st.expires, key) /\ t >= st.expires[key]
         THEN LET s1 == [st EXCEPT !.expires = Del(@, key)]
              IN  IF ~CanLock(s1, "store") THEN Panic(s1, {})
                  ELSE [st |-> [s1 EXCEPT !.store = Del(@, key)],
                        reply |-> None, panicked |-> FALSE]
         ELSE [st |-> st, reply |-> None, panicked |-> FALSE]

\* Instant + Duration, both in ms: None where Instant's seconds overflow,
\* which is where the + operator panics.
MsPerSec == 1000
InstantAdd(t, dur) ==
    IF (t + dur) \div MsPerSec > IMax THEN None ELSE Some(t + dur)

\* Duration::from_secs(sec as u64) and Duration::from_millis(ms as u64), in ms.
DurationFromSecs(sec) == AsUnsigned(sec) * MsPerSec
DurationFromMillis(ms) == AsUnsigned(ms)

(***************************************************************************)
(* lib.rs: Redis::execute_inner, one operator per arm of the match.        *)
(* Each takes the store `st`, the argv `cmd`, the `log` flag and the time  *)
(* t that Instant::now() returns during the call.                          *)
(***************************************************************************)
Done(st) == [st |-> st, reply |-> None, panicked |-> FALSE]

cmd_set(st, cmd, logging, t) ==
    IF Len(cmd) < 3 THEN Ret(st, WrongArgs)
    ELSE IF ~CanLock(st, "store") THEN Panic(st, {})
    ELSE LET s1 == [st EXCEPT !.store = Put(@, cmd[2], VString(cmd[3]))]
         IN  IF ~CanLock(s1, "expires") THEN Panic(s1, {})
             ELSE LogThen([s1 EXCEPT !.expires = Del(@, cmd[2])], cmd, logging, OK)

\* A faulty GET that appends its argv to the log as the mutating commands do;
\* "read-only commands never log" has to tell it from the real one.
cmd_get_logged(st, cmd, logging, t) ==
    IF Len(cmd) < 2 THEN Ret(st, WrongArgs)
    ELSE LET c == cleanup_key(st, cmd[2], t)
         IN  IF c.panicked THEN c
             ELSE IF ~CanLock(c.st, "store") THEN Panic(c.st, {})
             ELSE IF Has(c.st.store, cmd[2]) /\ c.st.store[cmd[2]].t = "String"
                  THEN LogThen(c.st, cmd, logging,
                               Bulk(Some(c.st.store[cmd[2]].v[1])))
                  ELSE LogThen(c.st, cmd, logging, Bulk(None))

cmd_get(st, cmd, logging, t) ==
    IF Len(cmd) < 2 THEN Ret(st, WrongArgs)
    ELSE LET c == cleanup_key(st, cmd[2], t)
         IN  IF c.panicked THEN c
             ELSE IF ~CanLock(c.st, "store") THEN Panic(c.st, {})
             ELSE IF Has(c.st.store, cmd[2]) /\ c.st.store[cmd[2]].t = "String"
                  THEN Ret(c.st, Bulk(Some(c.st.store[cmd[2]].v[1])))
                  ELSE Ret(c.st, Bulk(None))

\* The loop of DEL over cmd[1..]: the store afterwards and the count.
RECURSIVE del_loop(_, _, _, _)
del_loop(st, keys, count, t) ==
    IF keys = << >> THEN Ret(st, Integer(count))
    ELSE LET c == cleanup_key(st, Head(keys), t)
         IN  IF c.panicked THEN c
             ELSE IF ~CanLock(c.st, "store") THEN Panic(c.st, {})
             ELSE IF Has(c.st.store, Head(keys))
                  THEN del_loop([c.st EXCEPT !.store = Del(@, Head(keys)),
                                             !.expires = Del(@, Head(keys))],
                                Tail(keys), count + 1, t)
                  ELSE del_loop(c.st, Tail(keys), count, t)

cmd_del(st, cmd, logging, t) ==
    LET d == del_loop(st, Tail(cmd), 0, t)
    IN  IF d.panicked THEN d ELSE LogThen(d.st, cmd, logging, d.reply[1])

RECURSIVE exists_loop(_, _, _, _)
exists_loop(st, keys, count, t) ==
    IF keys = << >> THEN Ret(st, Integer(count))
    ELSE LET c == cleanup_key(st, Head(keys), t)
         IN  IF c.panicked THEN c
             ELSE IF ~CanLock(c.st, "store") THEN Panic(c.st, {})
             ELSE exists_loop(c.st, Tail(keys),
                              IF Has(c.st.store, Head(keys)) THEN count + 1
                              ELSE count, t)

cmd_exists(st, cmd, logging, t) == exists_loop(st, Tail(cmd), 0, t)

cmd_hset(st, cmd, logging, t) ==
    IF Len(cmd) < 4 THEN Ret(st, WrongArgs)
    ELSE LET c == cleanup_key(st, cmd[2], t)
             key == cmd[2]
         IN  IF c.panicked THEN c
             ELSE IF ~CanLock(c.st, "store") THEN Panic(c.st, {})
             ELSE LET old == IF Has(c.st.store, key) THEN c.st.store[key]
                             ELSE VHash(EmptyMap)
                      isHash == old.t = "Hash"
                      h == IF isHash THEN old.v[1] ELSE EmptyMap
                      inserted == IF isHash THEN ~Has(h, cmd[3]) ELSE TRUE
                  IN  LogThen([c.st EXCEPT
                                 !.store = Put(@, key, VHash(Put(h, cmd[3], cmd[4])))],
                              cmd, logging,
                              Integer(IF inserted THEN 1 ELSE 0))

cmd_hget(st, cmd, logging, t) ==
    IF Len(cmd) < 3 THEN Ret(st, WrongArgs)
    ELSE LET c == cleanup_key(st, cmd[2], t)
         IN  IF c.panicked THEN c
             ELSE IF ~CanLock(c.st, "store") THEN Panic(c.st, {})
             ELSE IF /\ Has(c.st.store, cmd[2])
                     /\ c.st.store[cmd[2]].t = "Hash"
                     /\ Has(c.st.store[cmd[2]].v[1], cmd[3])
                  THEN Ret(c.st, Bulk(Some(c.st.store[cmd[2]].v[1][cmd[3]])))
                  ELSE Ret(c.st, Bulk(None))

cmd_hdel(st, cmd, logging, t) ==
    IF Len(cmd) < 3 THEN Ret(st, WrongArgs)
    ELSE LET c == cleanup_key(st, cmd[2], t)
         IN  IF c.panicked THEN c
             ELSE IF ~CanLock(c.st, "store") THEN Panic(c.st, {})
             ELSE IF /\ Has(c.st.store, cmd[2])
                     /\ c.st.store[cmd[2]].t = "Hash"
                     /\ Has(c.st.store[cmd[2]].v[1], cmd[3])
                  THEN LogThen([c.st EXCEPT !.store[cmd[2]] =
                                   VHash(Del(@.v[1], cmd[3]))],
                               cmd, logging, Integer(1))
                  ELSE LogThen(c.st, cmd, logging, Integer(0))

\* An iteration order of a HashMap or HashSet, which the program leaves
\* unspecified: one order, fixed per content.
RECURSIVE Enumerate(_)
Enumerate(S) ==
    IF S = {} THEN << >>
    ELSE LET x == CHOOSE y \in S : TRUE IN <<x>> \o Enumerate(S \ {x})

cmd_hgetall(st, cmd, logging, t) ==
    IF Len(cmd) < 2 THEN Ret(st, WrongArgs)
    ELSE LET c == cleanup_key(st, cmd[2], t)
         IN  IF c.panicked THEN c
             ELSE IF ~CanLock(c.st, "store") THEN Panic(c.st, {})
             ELSE IF Has(c.st.store, cmd[2]) /\ c.st.store[cmd[2]].t = "Hash"
                  THEN LET h == c.st.store[cmd[2]].v[1]
                           fs == Enumerate(DOMAIN h)
                       IN  Ret(c.st, Array(Some(Concat(
                               [i \in 1..Len(fs) |->
                                   <<Bulk(Some(fs[i])), Bulk(Some(h[fs[i]]))>>]))))
                  ELSE Ret(c.st, Array(Some(<< >>)))

\* The members of cmd[2..] as a set, and how many of them are not in S.
Members(cmd) == {cmd[i] : i \in 3..Len(cmd)}

cmd_sadd(st, cmd, logging, t) ==
    IF Len(cmd) < 3 THEN Ret(st, WrongArgs)
    ELSE LET c == cleanup_key(st, cmd[2], t)
             key == cmd[2]
         IN  IF c.panicked THEN c
             ELSE IF ~CanLock(c.st, "store") THEN Panic(c.st, {})
             ELSE LET old == IF Has(c.st.store, key) THEN c.st.store[key]
                             ELSE VSet({})
                  IN  IF old.t = "Set"
                      THEN LogThen([c.st EXCEPT !.store =
                                       Put(@, key, VSet(old.v[1] \cup Members(cmd)))],
                                   cmd, logging,
                                   Integer(Cardinality(Members(cmd) \ old.v[1])))
                      ELSE LogThen(c.st, cmd, logging, Integer(0))

cmd_srem(st, cmd, logging, t) ==
    IF Len(cmd) < 3 THEN Ret(st, WrongArgs)
    ELSE LET c == cleanup_key(st, cmd[2], t)
         IN  IF c.panicked THEN c
             ELSE IF ~CanLock(c.st, "store") THEN Panic(c.st, {})
             ELSE IF Has(c.st.store, cmd[2]) /\ c.st.store[cmd[2]].t = "Set"
                  THEN LogThen([c.st EXCEPT !.store[cmd[2]] =
                                   VSet(@.v[1] \ Members(cmd))],
                               cmd, logging,
                               Integer(Cardinality(Members(cmd)
                                          \cap c.st.store[cmd[2]].v[1])))
                  ELSE LogThen(c.st, cmd, logging, Integer(0))

cmd_smembers(st, cmd, logging, t) ==
    IF Len(cmd) < 2 THEN Ret(st, WrongArgs)
    ELSE LET c == cleanup_key(st, cmd[2], t)
         IN  IF c.panicked THEN c
             ELSE IF ~CanLock(c.st, "store") THEN Panic(c.st, {})
             ELSE IF Has(c.st.store, cmd[2]) /\ c.st.store[cmd[2]].t = "Set"
                  THEN LET ms == Enumerate(c.st.store[cmd[2]].v[1])
                       IN  Ret(c.st, Array(Some(
                               [i \in 1..Len(ms) |-> Bulk(Some(ms[i]))])))
                  ELSE Ret(c.st, Array(Some(<< >>)))

\* The shared body of EXPIRE and PEXPIRE; dur is the Duration, in ms.
expire_with(st, cmd, logging, t, dur) ==
    LET c == cleanup_key(st, cmd[2], t)
    IN  IF c.panicked THEN c
        ELSE IF ~CanLock(c.st, "store") THEN Panic(c.st, {})
        ELSE IF Has(c.st.store, cmd[2])
             THEN IF ~CanLock(c.st, "expires") THEN Panic(c.st, {})
                  \* The deadline is computed under the guard of `expires`.
                  ELSE IF ~IsSome(InstantAdd(t, dur)) THEN Panic(c.st, {"expires"})
                  ELSE LogThen([c.st EXCEPT !.expires =
                                   Put(@, cmd[2], InstantAdd(t, dur)[1])],
                               cmd, logging, Integer(1))
             ELSE Ret(c.st, Integer(0))

cmd_expire(st, cmd, logging, t) ==
    IF Len(cmd) < 3 THEN Ret(st, WrongArgs)
    ELSE expire_with(st, cmd, logging, t,
                     DurationFromSecs(unwrap_or(ParseI64(cmd[3]), 0)))

cmd_pexpire(st, cmd, logging, t) ==
    IF Len(cmd) < 3 THEN Ret(st, WrongArgs)
    ELSE expire_with(st, cmd, logging, t,
                     DurationFromMillis(unwrap_or(ParseI64(cmd[3]), 0)))

\* (*t - Instant::now()).as_secs() as i64; Instant's subtraction saturates at 0.
SecsLeft(deadline, t) ==
    AsSigned((IF deadline > t THEN deadline - t ELSE 0) \div MsPerSec)

cmd_ttl(st, cmd, logging, t) ==
    IF Len(cmd) < 2 THEN Ret(st, WrongArgs)
    ELSE LET c == cleanup_key(st, cmd[2], t)
         IN  IF c.panicked THEN c
             ELSE IF ~CanLock(c.st, "store") THEN Panic(c.st, {})
             ELSE IF ~Has(c.st.store, cmd[2]) THEN Ret(c.st, Integer(-2))
             ELSE IF ~CanLock(c.st, "expires") THEN Panic(c.st, {})
             ELSE IF Has(c.st.expires, cmd[2])
                  THEN Ret(c.st, Integer(SecsLeft(c.st.expires[cmd[2]], t)))
                  ELSE Ret(c.st, Integer(-1))

cmd_persist(st, cmd, logging, t) ==
    IF Len(cmd) < 2 THEN Ret(st, WrongArgs)
    ELSE LET c == cleanup_key(st, cmd[2], t)
         IN  IF c.panicked THEN c
             ELSE IF ~CanLock(c.st, "expires") THEN Panic(c.st, {})
             ELSE IF Has(c.st.expires, cmd[2])
                  THEN LogThen([c.st EXCEPT !.expires = Del(@, cmd[2])],
                               cmd, logging, Integer(1))
                  ELSE Ret(c.st, Integer(0))

ErrText(s) == Error(<<"E", "R", "R", " ">> \o s)
DimensionMismatch ==
    ErrText(<<"d", "i", "m", "e", "n", "s", "i", "o", "n", " ", "m", "i", "s",
              "m", "a", "t", "c", "h">>)
NoSuchIndex ==
    ErrText(<<"n", "o", " ", "s", "u", "c", "h", " ", "i", "n", "d", "e", "x">>)
WorldError == ErrText(<<"w", "o", "r", "l", "d">>)

cmd_vec_create(st, cmd, logging, t) ==
    IF Len(cmd) < 5 THEN Ret(st, WrongArgs)
    ELSE IF ~CanLock(st, "vectors") THEN Panic(st, {})
    ELSE IF ~logging /\ Has(st.vectors, cmd[2]) THEN Ret(st, OK)
    ELSE LET idx == IndexNew(unwrap_or(ParseUsize(cmd[3]), 0),
                             unwrap_or(ParseUsize(cmd[4]), 0),
                             unwrap_or(ParseUsize(cmd[5]), 0))
         IN  IF IsSome(idx)
             THEN LogThen([st EXCEPT !.vectors = Put(@, cmd[2], idx[1])],
                          cmd, logging, OK)
             ELSE Ret(st, WorldError)

\* format!("doc:{id}")
DocKey(id) == <<"d", "o", "c", ":">> \o to_string(id)

cmd_vec_add(st, cmd, logging, t) ==
    IF Len(cmd) < 5 THEN Ret(st, WrongArgs)
    ELSE IF ~CanLock(st, "vectors") THEN Panic(st, {})
    ELSE IF ~Has(st.vectors, cmd[2]) THEN Ret(st, NoSuchIndex)
    ELSE LET id == unwrap_or(ParseU32(cmd[3]), 0)
             added == IndexAdd(st.vectors[cmd[2]], id, ParseVec(cmd[4]))
         IN  IF ~IsSome(added) THEN Ret(st, DimensionMismatch)
             ELSE IF ~CanLock(st, "store") THEN Panic(st, {"vectors"})
             ELSE LogThen([st EXCEPT
                             !.vectors = Put(@, cmd[2], added[1]),
                             !.store = Put(@, DocKey(id), VString(cmd[5]))],
                          cmd, logging, OK)

\* ---- tokio::sync::broadcast, as its documentation describes it: a channel
\* keeps the last `cap` values sent; every receiver has a cursor, the number
\* of values of the channel it is past; a receiver made by subscribe starts
\* at the tail. `rx` lists the receivers ever made, dropped ones included.
broadcast_channel(cap) ==
    [cap |-> cap, tail |-> 0, buf |-> << >>,
     rx |-> <<[pos |-> 0, open |-> TRUE]>>]

Sender_subscribe(tx) ==
    [tx EXCEPT !.rx = Append(@, [pos |-> tx.tail, open |-> TRUE])]

\* A count that goes on counting the receivers already dropped.
receiver_count_ever(tx) == Len(tx.rx)

receiver_count(tx) == Cardinality({i \in 1..Len(tx.rx) : tx.rx[i].open})

\* Sender::send: Err without a receiver, and the value is lost; else the
\* value is stored over the oldest one and the number of receivers returned.
Sender_send(tx, m) ==
    IF receiver_count(tx) = 0 THEN [tx |-> tx, n |-> None]
    ELSE LET all == Append(tx.buf, m)
             kept == IF Len(all) > tx.cap THEN Tail(all) ELSE all
         IN  [tx |-> [tx EXCEPT !.tail = @ + 1, !.buf = kept],
              n |-> Some(receiver_count(tx))]

\* Receiver::recv on receiver i. Behind the oldest kept value it returns
\* Err(Lagged) and moves to it; at the tail it waits (None here).
Receiver_recv(tx, i) ==
    LET oldest == tx.tail - Len(tx.buf)
        pos == tx.rx[i].pos
    IN  IF pos < oldest
        THEN [tx |-> [tx EXCEPT !.rx[i].pos = oldest],
              v |-> Some([ok |-> FALSE, m |-> << >>])]
        ELSE IF pos < tx.tail
        THEN [tx |-> [tx EXCEPT !.rx[i].pos = pos + 1],
              v |-> Some([ok |-> TRUE, m |-> tx.buf[pos - oldest + 1]])]
        ELSE [tx |-> tx, v |-> None]

Receiver_drop(tx, i) == [tx EXCEPT !.rx[i].open = FALSE]

\* Redis::subscribe: the receiver is <<channel, its number in the channel>>.
subscribe(st, ch) ==
    IF Has(st.pubsub, ch)
    THEN LET tx == Sender_subscribe(st.pubsub[ch])
         IN  [st |-> [st EXCEPT !.pubsub = Put(@, ch, tx)],
              rx |-> <<ch, Len(tx.rx)>>]
    ELSE [st |-> [st EXCEPT !.pubsub = Put(@, ch, broadcast_channel(ChanCap))],
          rx |-> <<ch, 1>>]

\* A publish that sends on every channel of the map, not only on ch.
publish_everywhere(st, ch, m) ==
    IF Has(st.pubsub, ch)
    THEN [st |-> [st EXCEPT !.pubsub =
                     [c \in DOMAIN st.pubsub |->
                        Sender_send(st.pubsub[c], m).tx]],
          n |-> unwrap_or(Sender_send(st.pubsub[ch], m).n, 0)]
    ELSE [st |-> st, n |-> 0]

\* Redis::publish: Sender::send gives the number of receivers, or an Err
\* when there is none, which unwrap_or turns into 0.
publish(st, ch, m) ==
    IF Has(st.pubsub, ch)
    THEN LET sent == Sender_send(st.pubsub[ch], m)
         IN  [st |-> [st EXCEPT !.pubsub = Put(@, ch, sent.tx)],
              n |-> unwrap_or(sent.n, 0)]
    ELSE [st |-> st, n |-> 0]

Published(r) == Ret(r.st, Integer(r.n))

cmd_publish(st, cmd, logging, t) ==
    IF Len(cmd) < 3 THEN Ret(st, WrongArgs)
    ELSE IF ~CanLock(st, "pubsub") THEN Panic(st, {})
    ELSE Published(publish(st, cmd[2], cmd[3]))

\* ---- cosine order on exact decimals <<mantissa, fraction digits>>
Pow10(n) == 10 ^ n
MaxFrac(vecs) ==
    LET fs == {0} \cup UNION {{v[i][2] : i \in 1..Len(v)} : v \in vecs}
    IN  CHOOSE f \in fs : \A g \in fs : g <= f
\* The components of v as integers at a common scale of f fraction digits.
Scaled(v, f) == [i \in 1..Len(v) |-> v[i][1] * Pow10(f - v[i][2])]
RECURSIVE Dot(_, _)
Dot(a, b) == IF a = << >> THEN 0 ELSE Head(a) * Head(b) + Dot(Tail(a), Tail(b))
Abs(x) == IF x < 0 THEN 0 - x ELSE x

\* Whether a is strictly nearer to q than b is, by cosine distance.
Nearer(a, b, q) ==
    LET f == MaxFrac({a, b, q})
        sa == Scaled(a, f)
        sb == Scaled(b, f)
        sq == Scaled(q, f)
        da == Dot(sa, sq)
        db == Dot(sb, sq)
    IN  da * Abs(da) * Dot(sb, sb) > db * Abs(db) * Dot(sa, sa)

\* World::search of the small-world-rs crate, which is not part of this
\* repository: taken to be exact, the k nodes nearest to the query, nearest
\* first, and among equally near nodes the one inserted first.
WorldSearch(world, q, k) ==
    LET n == Len(world)
        Before(i, j) ==
            \/ Nearer(world[i][2], world[j][2], q)
            \/ ~Nearer(world[j][2], world[i][2], q) /\ i < j
        Rank(i) == Cardinality({j \in 1..n : j # i /\ Before(j, i)})
        At(r) == CHOOSE i \in 1..n : Rank(i) = r - 1
        m == IF k < n THEN k ELSE n
    IN  [r \in 1..m |-> world[At(r)][1]]

\* Index::search: None is Err("dimension mismatch").
IndexSearch(idx, q, k, ef) ==
    IF Len(q) # idx.dim THEN None ELSE Some(WorldSearch(idx.world, q, k))

cmd_vec_search(st, cmd, logging, t) ==
    IF Len(cmd) < 5 THEN Ret(st, WrongArgs)
    ELSE IF ~CanLock(st, "vectors") THEN Panic(st, {})
    ELSE IF ~Has(st.vectors, cmd[2]) THEN Ret(st, NoSuchIndex)
    ELSE LET k == unwrap_or(ParseUsize(cmd[4]), 0)
             ids == IndexSearch(st.vectors[cmd[2]], ParseVec(cmd[3]), k,
                                unwrap_or(ParseUsize(cmd[5]), k))
             Payload(id) ==
                 IF Has(st.store, DocKey(id)) /\ st.store[DocKey(id)].t = "String"
                 THEN Some(st.store[DocKey(id)].v[1])
                 ELSE None
         IN  IF ~IsSome(ids) THEN Ret(st, DimensionMismatch)
             ELSE IF ~CanLock(st, "store") THEN Panic(st, {"vectors"})
             ELSE Ret(st, Array(Some(
                     [i \in 1..Len(ids[1]) |->
                         Array(Some(<<Integer(ids[1][i]),
                                      Bulk(Payload(ids[1][i]))>>))])))

\* f32::to_string of an exact decimal.
RECURSIVE ZeroPad(_, _)
ZeroPad(s, n) == IF Len(s) >= n THEN s ELSE ZeroPad(<<"0">> \o s, n)

F32ToString(x) ==
    LET digits == ZeroPad(NatToString(Abs(x[1])), x[2] + 1)
        cut == Len(digits) - x[2]
        text == IF x[2] = 0 THEN digits
                ELSE SubSeq(digits, 1, cut) \o <<".">>
                         \o SubSeq(digits, cut + 1, Len(digits))
    IN  IF x[1] < 0 THEN <<"-">> \o text ELSE text

\* vec.iter().map(|v| v.to_string()).collect::<Vec<_>>().join(",")
RECURSIVE JoinComma(_)
JoinComma(parts) ==
    IF parts = << >> THEN << >>
    ELSE IF Len(parts) = 1 THEN Head(parts)
    ELSE Head(parts) \o <<",">> \o JoinComma(Tail(parts))

VecToString(vec) == JoinComma([i \in 1..Len(vec) |-> F32ToString(vec[i])])

K_SET == <<"S", "E", "T">>
K_VEC_CREATE == <<"V", "E", "C", ".", "C", "R", "E", "A", "T", "E">>
K_VEC_ADD == <<"V", "E", "C", ".", "A", "D", "D">>

\* The frames Redis::compact writes to the temporary file (lib.rs:524-589):
\* a SET per String value, then per index a VEC.CREATE and a VEC.ADD per
\* retained vector.
CompactSets(st) ==
    LET ks == Enumerate({k \in DOMAIN st.store : st.store[k].t = "String"})
    IN  [i \in 1..Len(ks) |->
            encode(LogFrame(<<K_SET, ks[i], st.store[ks[i]].v[1]>>))]

\* A faulty rewrite that leaves the vectors to the snapshot file and writes
\* only the VEC.CREATE frame of an index; "snapshot recovery equals log
\* recovery" has to tell it from the real one.
CompactIndexCreateOnly(st, name) ==
    <<encode(LogFrame(<<K_VEC_CREATE, name, to_string(st.vectors[name].dim),
                        to_string(st.vectors[name].m),
                        to_string(st.vectors[name].ef_construction)>>))>>

CompactIndex(st, name) ==
    LET idx == st.vectors[name]
        ids == Enumerate(DOMAIN idx.vectors)
        Payload(id) ==
            IF Has(st.store, DocKey(id)) /\ st.store[DocKey(id)].t = "String"
            THEN st.store[DocKey(id)].v[1]
            ELSE << >>
    IN  <<encode(LogFrame(<<K_VEC_CREATE, name, to_string(idx.dim),
                            to_string(idx.m), to_string(idx.ef_construction)>>))>>
            \o [i \in 1..Len(ids) |->
                   encode(LogFrame(<<K_VEC_ADD, name, to_string(ids[i]),
                                     VecToString(idx.vectors[ids[i]]),
                                     Payload(ids[i])>>))]

CompactVectors(st) ==
    LET names == Enumerate(DOMAIN st.vectors)
    IN  Concat([i \in 1..Len(names) |-> CompactIndex(st, names[i])])

\* Redis::compact, with every file operation succeeding: the temporary file
\* is renamed over the log, the handle reopened and each index dumped.
compact(st) ==
    IF ~st.aof THEN Done(st)
    ELSE IF ~CanLock(st, "store") THEN Panic(st, {})
    ELSE IF ~CanLock(st, "vectors") THEN Panic(st, {})
    ELSE IF ~CanLock(st, "aof") THEN Panic(st, {})
    ELSE Done([st EXCEPT
                 !.disk = CompactSets(st) \o CompactVectors(st),
                 !.snaps = [n \in (DOMAIN @) \cup (DOMAIN st.vectors) |->
                               IF Has(st.vectors, n) THEN st.vectors[n] ELSE @[n]]])

cmd_compact(st, cmd, logging, t) ==
    LET c == compact(st) IN IF c.panicked THEN c ELSE Ret(c.st, OK)

K_GET == <<"G", "E", "T">>
K_DEL == <<"D", "E", "L">>
K_EXISTS == <<"E", "X", "I", "S", "T", "S">>
K_HSET == <<"H", "S", "E", "T">>
K_HGET == <<"H", "G", "E", "T">>
K_HDEL == <<"H", "D", "E", "L">>
K_HGETALL == <<"H", "G", "E", "T", "A", "L", "L">>
K_SADD == <<"S", "A", "D", "D">>
K_SREM == <<"S", "R", "E", "M">>
K_SMEMBERS == <<"S", "M", "E", "M", "B", "E", "R", "S">>
K_EXPIRE == <<"E", "X", "P", "I", "R", "E">>
K_PEXPIRE == <<"P", "E", "X", "P", "I", "R", "E">>
K_TTL == <<"T", "T", "L">>
K_PERSIST == <<"P", "E", "R", "S", "I", "S", "T">>
K_PUBLISH == <<"P", "U", "B", "L", "I", "S", "H">>
K_VEC_SEARCH == <<"V", "E", "C", ".", "S", "E", "A", "R", "C", "H">>
K_COMPACT == <<"C", "O", "M", "P", "A", "C", "T">>

\* Redis::execute_inner.
execute_inner(st, cmd, logging, t) ==
    IF cmd = << >>
    THEN Ret(st, ErrText(<<"e", "m", "p", "t", "y", " ", "c", "o", "m", "m", "a",
                           "n", "d">>))
    ELSE LET c == to_uppercase(cmd[1])
         IN  CASE c = K_SET -> cmd_set(st, cmd, logging, t)
               [] c = K_GET -> cmd_get(st, cmd, logging, t)
               [] c = K_DEL -> cmd_del(st, cmd, logging, t)
               [] c = K_EXISTS -> cmd_exists(st, cmd, logging, t)
               [] c = K_HSET -> cmd_hset(st, cmd, logging, t)
               [] c = K_HGET -> cmd_hget(st, cmd, logging, t)
               [] c = K_HDEL -> cmd_hdel(st, cmd, logging, t)
               [] c = K_HGETALL -> cmd_hgetall(st, cmd, logging, t)
               [] c = K_SADD -> cmd_sadd(st, cmd, logging, t)
               [] c = K_SREM -> cmd_srem(st, cmd, logging, t)
               [] c = K_SMEMBERS -> cmd_smembers(st, cmd, logging, t)
               [] c = K_EXPIRE -> cmd_expire(st, cmd, logging, t)
               [] c = K_PEXPIRE -> cmd_pexpire(st, cmd, logging, t)
               [] c = K_TTL -> cmd_ttl(st, cmd, logging, t)
               [] c = K_PERSIST -> cmd_persist(st, cmd, logging, t)
               [] c = K_PUBLISH -> cmd_publish(st, cmd, logging, t)
               [] c = K_VEC_CREATE -> cmd_vec_create(st, cmd, logging, t)
               [] c = K_VEC_ADD -> cmd_vec_add(st, cmd, logging, t)
               [] c = K_VEC_SEARCH -> cmd_vec_search(st, cmd, logging, t)
               [] c = K_COMPACT -> cmd_compact(st, cmd, logging, t)
               [] OTHER -> Ret(st, ErrText(<<"u", "n", "k", "n", "o", "w", "n", " ",
                                             "c", "o", "m", "m", "a", "n", "d">>))

\* Redis::execute
execute(st, cmd, t) == execute_inner(st, cmd, TRUE, t)

\* resp_to_string
resp_to_string(r) ==
    CASE r.t = "Bulk" /\ IsSome(r.v) -> IF ValidUtf8(r.v[1]) THEN r.v[1] ELSE << >>
      [] r.t \in {"Simple", "Error"} -> r.v[1]
      [] r.t = "Integer" -> to_string(r.v[1])
      [] OTHER -> << >>

\* The replay loop of Redis::new (lib.rs:77-82) at time t; a panic of a
\* replayed command ends it.
RECURSIVE replay(_, _, _)
\* After one replayed command: its panic ends the loop.
replay_rest(r, frames, t) ==
    IF r.panicked THEN r ELSE replay(r.st, frames, t)

replay(st, frames, t) ==
    IF frames = << >> THEN Done(st)
    ELSE IF Head(frames).t = "Array" /\ IsSome(Head(frames).v)
    THEN replay_rest(execute_inner(st, [i \in 1..Len(Head(frames).v[1]) |->
                                            resp_to_string(Head(frames).v[1][i])],
                                   FALSE, t),
                     Tail(frames), t)
    ELSE replay(st, Tail(frames), t)

\* lib.rs:74-83: the log is replayed when all of it parses.
new_replay(s0, frames, t) ==
    IF frames.tag = "ok" THEN replay(s0, frames.frames, t)
    ELSE IF frames.tag = "panic" THEN Panic(s0, {})
    ELSE Done(s0)

\* A faulty opening of the log that truncates the file; "opening a store
\* leaves the log unchanged" has to tell it from the real one.
new_open_truncating(r) ==
    IF r.panicked THEN r
    ELSE Done([r.st EXCEPT !.aof = TRUE, !.disk = << >>])

\* lib.rs:84-86: the handle of the log is kept.
new_open(r) == IF r.panicked THEN r ELSE Done([r.st EXCEPT !.aof = TRUE])

\* Redis::new(Some(path)) at time t over the files d and sn: the snapshots
\* are loaded, the log is replayed, the handle is kept.
new(d, sn, t) ==
    new_open(new_replay([Fresh(d, sn) EXCEPT !.vectors = sn],
                        parse_stream(ReadToEnd(d)), t))

(***************************************************************************)
(* The messages and byte strings the codec is run on.                      *)
(***************************************************************************)
TextChars == {"a", CR, LF}
Texts(n) == UNION {[1..k -> TextChars] : k \in 0..n}
IntSamples == {IMin, -1, 0, 10, IMax}

Leaves(n) ==
    {Simple(s) : s \in Texts(n)} \cup {Error(s) : s \in Texts(n)}
        \cup {Integer(i) : i \in IntSamples}
        \cup {Bulk(None)} \cup {Bulk(Some(s)) : s \in Texts(n)}

\* What the generated arrays are made of: every variant, both nulls, a nested
\* array, and line terminators inside a Bulk and inside a Simple.
ElemMsgs ==
    {Simple(<<"a">>), Simple(CRLF), Error(<<CR>>), Integer(-1), Bulk(None),
     Bulk(Some(CRLF)), Array(None), Array(Some(<< >>)),
     Array(Some(<<Integer(10), Bulk(Some(<<"a">>))>>))}

Arrays(n) ==
    {Array(None)}
        \cup {Array(Some(a)) : a \in UNION {[1..k -> ElemMsgs] : k \in 0..n}}

Msgs == Leaves(MaxText) \cup Arrays(MaxArr)

\* No Simple or Error text of m, at any depth, contains "\r\n".
RECURSIVE NoCrlfText(_)
NoCrlfText(m) ==
    CASE m.t \in {"Simple", "Error"} -> ~IsSome(find_crlf(m.v[1]))
      [] m.t = "Array" /\ IsSome(m.v) ->
            \A i \in 1..Len(m.v[1]) : NoCrlfText(m.v[1][i])
      [] OTHER -> TRUE

(***************************************************************************)
(* The store at rest, for the specifications that run the codec alone.     *)
(***************************************************************************)
\* Nothing published and no receiver handed out.
Unheard == [published |-> EmptyMap, rx |-> << >>]

\* The client threads, all idle, and the sweeper asleep; no compaction has a
\* temporary file, and the handle of the log is on the file at aof_path.
Clients == {1, 2}
IdleThread ==
    [pc |-> "idle", argv |-> << >>, loc |-> << >>, left |-> MaxCalls,
     reply |-> None]
NoThreads ==
    [t |-> [i \in Clients |-> IdleThread],
     sw |-> [pc |-> "sleep", at |-> 0],
     tmp |-> None, stale |-> FALSE, ack |-> None, clash |-> {}]

\* A connection just accepted (lib.rs:639). `peer` is the client's end of it,
\* `sent` the bytes the server has read from it so far and `todo` those of a
\* request the client has still to send.
Accepted ==
    [buf |-> << >>, out |-> << >>, mode |-> "serving", reads |-> 0,
     peer |-> "open", sent |-> << >>, todo |-> << >>]

StoreIdle ==
    /\ store = EmptyMap
    /\ expires = EmptyMap
    /\ vectors = EmptyMap
    /\ aof = FALSE
    /\ disk = << >>
    /\ snaps = EmptyMap
    /\ pubsub = EmptyMap
    /\ poisoned = {}
    /\ sweeper = TRUE
    /\ now = 0
    /\ last = None
    /\ given = EmptyMap
    /\ heard = Unheard
    /\ conn = Accepted
    /\ thr = NoThreads

CodecIdle ==
    /\ msg = None
    /\ wire = << >>
    /\ res = None
    /\ cpc = "idle"

(***************************************************************************)
(* The codec run: encode a message, hand the bytes (or a proper prefix of  *)
(* them, as a socket read may deliver) to parse.                           *)
(***************************************************************************)
InitResp ==
    /\ StoreIdle
    /\ msg \in {Some(m) : m \in Msgs}
    /\ wire = << >>
    /\ res = None
    /\ cpc = "start"

EncodeStep ==
    /\ cpc = "start"
    /\ wire' = encode(msg[1])
    /\ cpc' = "encoded"
    /\ UNCHANGED <<msg, res>>
    /\ UNCHANGED storeVars

\* Only the first n bytes have arrived.
CutStep ==
    /\ cpc = "encoded"
    /\ \E n \in 0..(Len(wire) - 1) : wire' = Slice(wire, 0, n)
    /\ cpc' = "cut"
    /\ UNCHANGED <<msg, res>>
    /\ UNCHANGED storeVars

ParseStep ==
    /\ cpc \in {"encoded", "cut"}
    /\ res' = Some(parse(wire))
    /\ cpc' = IF cpc = "encoded" THEN "parsed" ELSE "parsed_cut"
    /\ UNCHANGED <<msg, wire>>
    /\ UNCHANGED storeVars

NextResp == EncodeStep \/ CutStep \/ ParseStep

SpecResp == InitResp /\ [][NextResp]_vars

\* C2 as stated: parse(encode(m)) = Ok((m, len(encode(m)))) for every
\* constructible message m, whatever text it carries.
C2_RoundTripAnyText ==
    cpc = "parsed" => res[1] = POk(msg[1], Len(encode(msg[1])))

\* C2 amended: the round trip holds for every message none of whose Simple or
\* Error texts, at any depth, contains the line terminator "\r\n".
C2_RoundTrip ==
    (cpc = "parsed" /\ NoCrlfText(msg[1]))
        => res[1] = POk(msg[1], Len(encode(msg[1])))

\* A nested array with a null bulk, a bulk holding "\r\n" and an integer has
\* been encoded and parsed back.
C2_Witness ==
    /\ cpc = "parsed"
    /\ msg[1].t = "Array" /\ IsSome(msg[1].v) /\ Len(msg[1].v[1]) = 2
    /\ msg[1].v[1][1] = Array(Some(<<Integer(10), Bulk(Some(<<"a">>))>>))
    /\ msg[1].v[1][2] = Bulk(Some(CRLF))
    /\ res[1].tag = "ok"

\* C3: for a message whose Simple/Error texts hold no line terminator, parse
\* of any proper prefix of its encoding (the empty one included) fails with
\* UnexpectedEof: never InvalidData, never a message.
C3_PrefixIncomplete ==
    (cpc = "parsed_cut" /\ NoCrlfText(msg[1])) => res[1] = PEof

\* A prefix that ends inside the payload of a bulk nested in an array has been
\* parsed.
C3_Witness ==
    /\ cpc = "parsed_cut"
    /\ msg[1] = Array(Some(<<Bulk(Some(CRLF)), Integer(-1)>>))
    /\ wire = <<"*", "2", CR, LF, "$", "2", CR, LF, CR, LF>>
    /\ res[1] = PEof

(***************************************************************************)
(* The store in operation: one client calling execute, the sweeper thread, *)
(* the clock, and the process restarting on the same log path.             *)
(***************************************************************************)
KA == <<"a">>
KB == <<"b">>
Keys == {KA, KB}
V1 == <<"v">>
V2 == <<"w">>

\* Redis::new(Some(path)) on a path that holds no file yet.
InitStore ==
    /\ store = EmptyMap
    /\ expires = EmptyMap
    /\ vectors = EmptyMap
    /\ aof = TRUE
    /\ disk = << >>
    /\ snaps = EmptyMap
    /\ pubsub = EmptyMap
    /\ poisoned = {}
    /\ sweeper = TRUE
    /\ now = 0
    /\ last = None
    /\ given = EmptyMap
    /\ heard = Unheard
    /\ conn = Accepted
    /\ thr = NoThreads
    /\ CodecIdle

Install(st) ==
    /\ store' = st.store
    /\ expires' = st.expires
    /\ vectors' = st.vectors
    /\ aof' = st.aof
    /\ disk' = st.disk
    /\ snaps' = st.snaps
    /\ pubsub' = st.pubsub
    /\ poisoned' = st.poisoned

\* The duration an EXPIRE or PEXPIRE argv asks for, in ms, as written.
AskedMs(argv) ==
    LET n == unwrap_or(ParseI64(argv[3]), 0)
    IN  IF to_uppercase(argv[1]) = K_EXPIRE THEN n * MsPerSec ELSE n

\* What a call of execute leaves behind: the store it returns, the reply the
\* client saw, and the duration a successful EXPIRE or PEXPIRE asked for.
Recorded(argv, r) ==
    /\ Install(r.st)
    /\ last' = Some([argv |-> argv, reply |-> r.reply, panicked |-> r.panicked])
    /\ given' = IF /\ Len(argv) >= 3
                   /\ to_uppercase(argv[1]) \in {K_EXPIRE, K_PEXPIRE}
                   /\ r.reply = Some(Integer(1))
                THEN Put(given, argv[2], AskedMs(argv))
                ELSE given
    /\ UNCHANGED <<sweeper, now>>
    /\ UNCHANGED codecVars
    /\ UNCHANGED sideVars

\* The same while the log holds no more than MaxLog chunks.
Executed(argv, r) ==
    /\ Len(r.st.disk) <= MaxLog
    /\ Recorded(argv, r)
    /\ UNCHANGED heard

\* One call of execute by the client.
Execute(argv) == Executed(argv, execute(St, argv, now))

\* One pass of the sweeper loop (lib.rs:95-106). A poisoned mutex ends the
\* thread; under the guard of `expires` it poisons that too.
Sweep ==
    /\ sweeper
    /\ IF ~CanLock(St, "expires")
       THEN sweeper' = FALSE /\ UNCHANGED <<store, expires, poisoned>>
       ELSE IF ~CanLock(St, "store")
       THEN /\ sweeper' = FALSE
            /\ poisoned' = poisoned \cup {"expires"}
            /\ UNCHANGED <<store, expires>>
       ELSE LET keys == {k \in DOMAIN expires : expires[k] <= now}
            IN  /\ expires' = [k \in (DOMAIN expires) \ keys |-> expires[k]]
                /\ store' = [k \in (DOMAIN store) \ keys |-> store[k]]
                /\ UNCHANGED <<sweeper, poisoned>>
    /\ UNCHANGED <<vectors, aof, disk, snaps, pubsub, now, last, given, heard>>
    /\ UNCHANGED codecVars
    /\ UNCHANGED sideVars

Tick ==
    /\ now + TickMs <= MaxSec * MsPerSec
    /\ now' = now + TickMs
    /\ UNCHANGED <<store, expires, vectors, aof, disk, snaps, pubsub, poisoned,
                   sweeper, last, given, heard>>
    /\ UNCHANGED codecVars
    /\ UNCHANGED sideVars

\* The store a restart leaves behind.
Restarted(r) ==
    /\ aof
    /\ ~r.panicked
    /\ Install(r.st)
    /\ sweeper' = TRUE
    /\ last' = None
    /\ UNCHANGED <<now, given, heard>>
    /\ UNCHANGED codecVars
    /\ UNCHANGED sideVars

\* The process ends and Redis::new opens the same log path again.
Restart == Restarted(new(disk, snaps, now))

\* ---- strings and deadlines
DurArgs == {<<"1">>, <<"-", "1">>}
MsArgs == {<<"5", "0", "0">>, <<"-", "1">>}

CmdsCore ==
    {<<K_SET, KA, V1>>, <<K_SET, KB, V2>>, <<K_DEL, KA>>, <<K_PERSIST, KA>>}
        \cup {<<K_EXPIRE, KA, d>> : d \in DurArgs}
        \cup {<<K_PEXPIRE, KA, d>> : d \in MsArgs}
        \cup {<<c, KA>> : c \in {K_GET, K_EXISTS, K_TTL}}

Call == \E argv \in CmdsCore : Execute(argv)

Next == Call \/ Sweep \/ Tick \/ Restart

Spec == InitStore /\ [][Next]_vars

\* Whether k is absent from the key space: never set, deleted, or past its
\* deadline (swept or not).
Absent(k) == ~Has(store, k) \/ (Has(expires, k) /\ expires[k] <= now)

Reply(argv) == execute(St, argv, now).reply

\* C1: a store opened afterwards on the same log path answers GET and EXISTS
\* on every key as the original store does (stated for the histories in which
\* no command panicked).
C1_ReplayFidelity ==
    (aof /\ poisoned = {}) =>
        LET r == new(disk, snaps, now)
        IN  /\ ~r.panicked
            /\ \A k \in Keys : \A c \in {K_GET, K_EXISTS} :
                   Reply(<<c, k>>) = execute(r.st, <<c, k>>, now).reply

FieldF == <<"f">>
MemberX == <<"x">>

\* C4: a key whose deadline is at or before the current time is logically
\* absent, swept or not: GET gives null, EXISTS 0, TTL -2, HGET null, HGETALL
\* and SMEMBERS the empty array, EXPIRE, PEXPIRE and PERSIST 0.
C4_ExpiredIsAbsent ==
    \A k \in Keys :
        (Has(expires, k) /\ expires[k] <= now) =>
            /\ Reply(<<K_GET, k>>) = Some(Bulk(None))
            /\ Reply(<<K_EXISTS, k>>) = Some(Integer(0))
            /\ Reply(<<K_TTL, k>>) = Some(Integer(-2))
            /\ Reply(<<K_HGET, k, FieldF>>) = Some(Bulk(None))
            /\ Reply(<<K_HGETALL, k>>) = Some(Array(Some(<< >>)))
            /\ Reply(<<K_SMEMBERS, k>>) = Some(Array(Some(<< >>)))
            /\ Reply(<<K_EXPIRE, k, <<"1">>>>) = Some(Integer(0))
            /\ Reply(<<K_PEXPIRE, k, <<"5", "0", "0">>>>) = Some(Integer(0))
            /\ Reply(<<K_PERSIST, k>>) = Some(Integer(0))

\* The same where no mutex is poisoned: what C4 comes to once the panic of
\* EXPIRE with a negative duration is set aside.
C4_ExpiredIsAbsentUnpoisoned == poisoned = {} => C4_ExpiredIsAbsent

\* C5: TTL k replies -2 exactly when k is absent, -1 exactly when k exists
\* with no deadline, and otherwise a number of seconds from 0 up to the
\* duration last given to EXPIRE/PEXPIRE for k (stated where no mutex is
\* poisoned).
C5_TtlReply ==
    poisoned = {} =>
        \A k \in Keys :
            LET r == Reply(<<K_TTL, k>>)
            IN  /\ IsSome(r) /\ r[1].t = "Integer"
                /\ (r[1].v[1] = -2) <=> Absent(k)
                /\ (r[1].v[1] = -1) <=> (~Absent(k) /\ ~Has(expires, k))
                /\ r[1].v[1] \notin {-2, -1} =>
                       /\ r[1].v[1] >= 0
                       /\ Has(given, k)
                       /\ r[1].v[1] * MsPerSec <= given[k]

\* C6: execute always returns a reply, and leaves every mutex usable and the
\* sweeper running.
C6_NeverPanics ==
    /\ last # None => (~last[1].panicked /\ IsSome(last[1].reply))
    /\ poisoned = {}
    /\ sweeper

Name == <<"i">>
Chan == <<"c">>
\* Argument lists one short of the arity of the command table.
ShortCmds ==
    {<<K_SET, KA>>, <<K_GET>>, <<K_DEL>>, <<K_EXISTS>>, <<K_HSET, KA, FieldF>>,
     <<K_HGET, KA>>, <<K_HDEL, KA>>, <<K_SADD, KA>>, <<K_SREM, KA>>,
     <<K_EXPIRE, KA>>, <<K_PEXPIRE, KA>>, <<K_TTL>>, <<K_PERSIST>>,
     <<K_PUBLISH, Chan>>, <<K_VEC_CREATE, Name, <<"2">>, <<"4">>>>,
     <<K_VEC_ADD, Name, <<"1">>, <<"1", ",", "0">>>>,
     <<K_VEC_SEARCH, Name, <<"1", ",", "0">>, <<"1">>>>}

\* C7: a command called with fewer arguments than its arity returns an Error
\* and changes neither the key space, the expiration table, the index
\* registry nor the log.
C7_ArityEnforced ==
    \A argv \in ShortCmds :
        LET r == execute(St, argv, now)
        IN  /\ IsSome(r.reply) /\ r.reply[1].t = "Error"
            /\ r.st = St

\* C9: EXPIRE and PEXPIRE on a key that exists after lazy expiry reply 1 and
\* set its deadline to now + the duration asked for; on a key that does not,
\* they reply 0 and change nothing beyond that lazy expiry (stated where no
\* mutex is poisoned).
C9_ExpireSetsDeadline ==
    poisoned = {} =>
        \A k \in Keys :
            \A argv \in {<<K_EXPIRE, k, d>> : d \in DurArgs}
                          \cup {<<K_PEXPIRE, k, d>> : d \in MsArgs} :
                LET c == cleanup_key(St, k, now).st
                    r == execute(St, argv, now)
                IN  IF Has(c.store, k)
                    THEN /\ r.reply = Some(Integer(1))
                         /\ Has(r.st.expires, k)
                         /\ r.st.expires[k] = now + AskedMs(argv)
                    ELSE r.reply = Some(Integer(0)) /\ r.st = c

(***************************************************************************)
(* The store holding strings, hashes and sets.                             *)
(***************************************************************************)
MemberY == <<"y">>
Ms500 == <<"5", "0", "0">>

CmdsTyped ==
    {<<K_SET, KA, V1>>, <<K_HSET, KA, FieldF, V1>>, <<K_HSET, KA, FieldF, V2>>,
     <<K_SADD, KA, MemberX>>, <<K_SADD, KA, MemberX, MemberY>>,
     <<K_HDEL, KA, FieldF>>, <<K_SREM, KA, MemberX>>, <<K_PEXPIRE, KA, Ms500>>,
     <<K_GET, KA>>, <<K_HGET, KA, FieldF>>, <<K_HGETALL, KA>>,
     <<K_SMEMBERS, KA>>}

CallTyped == \E argv \in CmdsTyped : Execute(argv)

NextTyped == CallTyped \/ Sweep \/ Tick \/ Restart

SpecTyped == InitStore /\ [][NextTyped]_vars

\* The typed commands that do not apply to a value of variant t.
Mismatched(k, t) ==
    CASE t = "Hash" -> {<<K_GET, k>>, <<K_SADD, k, MemberX>>,
                        <<K_SREM, k, MemberX>>, <<K_SMEMBERS, k>>}
      [] t = "String" -> {<<K_HGET, k, FieldF>>, <<K_HDEL, k, FieldF>>,
                          <<K_HGETALL, k>>, <<K_SADD, k, MemberX>>}
      [] t = "Set" -> {<<K_GET, k>>, <<K_HGET, k, FieldF>>,
                       <<K_HDEL, k, FieldF>>, <<K_HGETALL, k>>}

\* C8: a typed command applied to a live key that holds another variant
\* returns an Error and leaves the key as it was.
C8_TypeMismatchIsError ==
    \A k \in Keys :
        ~Absent(k) =>
            \A argv \in Mismatched(k, store[k].t) :
                LET r == execute(St, argv, now)
                IN  /\ IsSome(r.reply) /\ r.reply[1].t = "Error"
                    /\ Has(r.st.store, k) /\ r.st.store[k] = store[k]

(***************************************************************************)
(* The store holding vector indexes.                                       *)
(***************************************************************************)
Doc1 == <<"p">>
Doc2 == <<"q">>
Id1 == <<"1">>
Id2 == <<"2">>
Two == <<"2">>
Four == <<"4">>
Ten == <<"1", "0">>
\* Vectors as the client writes them; the third has a component that is no
\* number, the fourth a single component.
Vec10 == <<"1", ",", "0">>
Vec01 == <<"0", ",", "1">>
Vec1x0 == <<"1", ",", "x", ",", "0">>
Vec1 == <<"1">>
VecTexts == {Vec10, Vec01, Vec1x0, Vec1}

CmdsVec ==
    {<<K_VEC_CREATE, Name, Two, Four, Ten>>,
     <<K_VEC_ADD, Name, Id1, Vec10, Doc1>>, <<K_VEC_ADD, Name, Id2, Vec01, Doc2>>,
     <<K_VEC_ADD, Name, Id1, Vec01, Doc2>>, <<K_VEC_ADD, Name, Id2, Vec1, Doc1>>,
     <<K_VEC_SEARCH, Name, Vec10, Id1, Ten>>, <<K_PEXPIRE, DocKey(1), Ms500>>,
     <<K_GET, DocKey(1)>>}

CallVec == \E argv \in CmdsVec : Execute(argv)

NextVec == CallVec \/ Sweep \/ Tick \/ Restart

SpecVec == InitStore /\ [][NextVec]_vars

\* The number of comma-separated components of a vector as written.
Components(text) == Len(Split(text, <<",">>[1]))

\* C10: VEC.ADD with a vector whose number of comma-separated components
\* differs from the dimension of the index returns an Error and changes
\* nothing: not the index, not doc:<id>, not the log.
C10_DimensionEnforced ==
    \A text \in VecTexts :
        (Has(vectors, Name) /\ Components(text) # vectors[Name].dim) =>
            LET r == execute(St, <<K_VEC_ADD, Name, Id2, text, Doc2>>, now)
            IN  /\ IsSome(r.reply) /\ r.reply[1].t = "Error"
                /\ r.st = St

\* The ids held by index name of the registry v: none when there is no such
\* index.
IdsOf(v, name) == IF Has(v, name) THEN DOMAIN v[name].vectors ELSE {}
\* The ids of the nodes of its graph, which are those a search can return.
NodesOf(v, name) ==
    IF Has(v, name) THEN {v[name].world[i][1] : i \in 1..Len(v[name].world)}
    ELSE {}

\* C11: an id that is a member of an index stays a member of it, in its
\* id->vector map and in its graph, after whatever command the same process
\* executes next, a further VEC.CREATE of the same name included.
C11_IndexKeepsIds ==
    \A argv \in CmdsVec :
        LET r == execute(St, argv, now)
        IN  /\ IdsOf(vectors, Name) \subseteq IdsOf(r.st.vectors, Name)
            /\ NodesOf(vectors, Name) \subseteq NodesOf(r.st.vectors, Name)

\* C12: a store restarted from the log of VEC.CREATE and VEC.ADD commands
\* holds, for every index name, the dimension and the ids the original store
\* holds.
C12_VectorReplayFidelity ==
    aof =>
        LET r == new(disk, snaps, now)
        IN  /\ ~r.panicked
            /\ DOMAIN r.st.vectors = DOMAIN vectors
            /\ \A name \in DOMAIN vectors :
                   /\ r.st.vectors[name].dim = vectors[name].dim
                   /\ IdsOf(r.st.vectors, name) = IdsOf(vectors, name)

(***************************************************************************)
(* The store holding every kind of value at once: a string, a hash or a    *)
(* set under one key, a deadline on it, and a vector index.                *)
(***************************************************************************)
CmdsMixed ==
    {<<K_SET, KA, V1>>, <<K_HSET, KA, FieldF, V1>>, <<K_SADD, KA, MemberX>>,
     <<K_PEXPIRE, KA, Ms500>>, <<K_DEL, KA>>, <<K_GET, KA>>,
     <<K_VEC_CREATE, Name, Two, Four, Ten>>,
     <<K_VEC_ADD, Name, Id1, Vec10, Doc1>>}

CallMixed == \E argv \in CmdsMixed : Execute(argv)

NextMixed == CallMixed \/ Sweep \/ Tick \/ Restart

SpecMixed == InitStore /\ [][NextMixed]_vars

\* The commands that do not mutate, with and without their arguments and
\* with one argument too many.
ReadCmds ==
    LET full == {<<K_GET, KA>>, <<K_EXISTS, KA>>, <<K_EXISTS, KA, KB>>,
                 <<K_TTL, KA>>, <<K_SMEMBERS, KA>>, <<K_HGET, KA, FieldF>>,
                 <<K_HGETALL, KA>>, <<K_GET, DocKey(1)>>,
                 <<K_VEC_SEARCH, Name, Vec10, Id1, Ten>>,
                 <<K_VEC_SEARCH, Name, Vec1, Id1, Ten>>,
                 <<K_VEC_SEARCH, KA, Vec10, Id1, Ten>>,
                 <<K_PUBLISH, Chan, V1>>}
    IN  full \cup {SubSeq(c, 1, Len(c) - 1) : c \in full}
             \cup {Append(c, V2) : c \in full}

\* C13: GET, EXISTS, TTL, SMEMBERS, HGET, HGETALL, VEC.SEARCH and PUBLISH
\* leave the log file as it is, byte for byte, whatever their arguments and
\* whatever the state of the store.
C13_ReadOnlyNeverLogs ==
    \A argv \in ReadCmds : execute(St, argv, now).st.disk = disk

\* A key whose deadline has passed is still in the store, the log is not
\* empty, and GET removes the key without touching the log.
C13_Witness ==
    /\ disk # << >>
    /\ Has(store, KA) /\ Has(expires, KA) /\ expires[KA] <= now
    /\ ~Has(execute(St, <<K_GET, KA>>, now).st.store, KA)
    /\ execute(St, <<K_GET, KA>>, now).st.disk = disk

\* What a client can observe of the store st at time t: the keys whose
\* deadline has not passed with their values, the deadlines of those keys,
\* and the index registry.
Observable(st, t) ==
    LET live == {k \in DOMAIN st.store :
                    ~(Has(st.expires, k) /\ st.expires[k] <= t)}
    IN  [store |-> [k \in live |-> st.store[k]],
         expires |-> [k \in live \cap DOMAIN st.expires |-> st.expires[k]],
         vectors |-> st.vectors]

\* The commands given to execute in one state or another.
AnyCmds == CmdsCore \cup CmdsMixed \cup ShortCmds

\* C14 for one call: if it changes what can be observed it returns a reply
\* and the log has grown by exactly the frame of its argv; if it returns an
\* Error the log is as it was.
DurableBeforeAck(argv) ==
    LET r == execute(St, argv, now)
    IN  /\ Observable(r.st, now) # Observable(St, now) =>
               /\ IsSome(r.reply)
               /\ r.st.disk = Append(disk, encode(LogFrame(argv)))
        /\ (IsSome(r.reply) /\ r.reply[1].t = "Error") => r.st.disk = disk

\* C14: with a log configured, every command that changes the key space, the
\* expiration table or the index registry appends exactly one frame, the
\* Array-of-Bulk encoding of its argv, before execute returns; a command
\* that returns an Error appends nothing.
C14_DurableBeforeAck == aof => \A argv \in AnyCmds : DurableBeforeAck(argv)

\* The same where no mutex is poisoned: what C14 comes to once the panic of
\* EXPIRE with a negative duration is set aside.
C14_DurableBeforeAckUnpoisoned == poisoned = {} => C14_DurableBeforeAck

(***************************************************************************)
(* The store under compaction: a string key with a deadline, a vector      *)
(* index whose id is added twice, the payload key deleted, and COMPACT.    *)
(***************************************************************************)
CmdsCompact ==
    {<<K_SET, KA, V1>>, <<K_PEXPIRE, KA, Ms500>>,
     <<K_VEC_CREATE, Name, Two, Four, Ten>>,
     <<K_VEC_ADD, Name, Id1, Vec10, Doc1>>, <<K_VEC_ADD, Name, Id1, Vec01, Doc2>>,
     <<K_DEL, DocKey(1)>>, <<K_COMPACT>>}

ExecutedCompact(argv, r) ==
    /\ Len(r.st.disk) <= MaxLogCompact
    /\ Recorded(argv, r)
    /\ UNCHANGED heard

CallCompact ==
    \E argv \in CmdsCompact : ExecutedCompact(argv, execute(St, argv, now))

NextCompact == CallCompact \/ Sweep \/ Tick \/ Restart

SpecCompact == InitStore /\ [][NextCompact]_vars

\* C15: opening a store on the log leaves the log file, and the snapshot
\* files, as they are, and opening it once more, then or later, rebuilds the
\* same key space and the same index registry.
C15_ReplayIdempotent ==
    LET r1 == new(disk, snaps, now)
    IN  /\ ~r1.panicked
        /\ r1.st.disk = disk
        /\ r1.st.snaps = snaps
        /\ \A t \in {now, now + TickMs} :
               LET r2 == new(r1.st.disk, r1.st.snaps, t)
               IN  /\ ~r2.panicked
                   /\ r2.st.disk = disk
                   /\ r2.st.store = r1.st.store
                   /\ r2.st.vectors = r1.st.vectors

\* A log rewritten by COMPACT and appended to since, beside a snapshot of
\* index i, rebuilds a store that holds index i and the payload key doc:1.
C15_Witness ==
    /\ Has(snaps, Name)
    /\ Len(disk) = MaxLogCompact
    /\ Has(new(disk, snaps, now).st.vectors, Name)
    /\ Has(new(disk, snaps, now).st.store, DocKey(1))
    /\ new(disk, snaps, now).st.disk = disk

\* The dataset compaction is to preserve, as a client sees it at time t: the
\* string keys whose deadline has not passed with their values, and per index
\* its dimension, its id->vector map and the payload of each id (the string
\* value of doc:<id>, None when there is none).
LiveString(st, k, t) ==
    /\ Has(st.store, k) /\ st.store[k].t = "String"
    /\ ~(Has(st.expires, k) /\ st.expires[k] <= t)

Dataset(st, t) ==
    [strings |-> [k \in {k \in DOMAIN st.store : LiveString(st, k, t)} |->
                     st.store[k].v[1]],
     indexes |-> [n \in DOMAIN st.vectors |->
                     [dim |-> st.vectors[n].dim,
                      vectors |-> st.vectors[n].vectors,
                      payloads |-> [id \in DOMAIN st.vectors[n].vectors |->
                                       IF LiveString(st, DocKey(id), t)
                                       THEN Some(st.store[DocKey(id)].v[1])
                                       ELSE None]]]]

\* The store a restart finds after the store st has run COMPACT n times.
RECURSIVE Compacted(_, _)
Compacted(st, n) == IF n = 0 THEN st ELSE Compacted(compact(st).st, n - 1)

Reopened(st, t) == new(st.disk, st.snaps, t).st

\* C16: after COMPACT run once or twice in a row, replaying the resulting log
\* yields the dataset the store held before: the same string keys and values,
\* and per index the same dimension, ids, vectors and payloads.
C16_CompactionFidelity ==
    /\ Dataset(Reopened(Compacted(St, 1), now), now) = Dataset(St, now)
    /\ Dataset(Reopened(Compacted(St, 2), now), now) = Dataset(St, now)

\* The part of C16 that compares the two compactions with each other.
C16_SecondCompactSameAsFirst ==
    Dataset(Reopened(Compacted(St, 2), now), now)
        = Dataset(Reopened(Compacted(St, 1), now), now)

\* The (id, payload) pairs VEC.SEARCH returns from index name of the store st
\* for a query q and a k no smaller than the index.
Found(st, name, q, t) ==
    LET r == execute_inner(st, <<K_VEC_SEARCH, name, q, Ten, Ten>>, FALSE, t)
    IN  IF IsSome(r.reply) /\ r.reply[1].t = "Array"
        THEN {r.reply[1].v[1][i] : i \in 1..Len(r.reply[1].v[1])}
        ELSE {r.reply}

\* C17: a store restarted with the snapshot files present and a store
\* restarted from the same log with those files removed hold the same
\* indexes, by name, dimension, id->vector map and payload of each id, and
\* VEC.SEARCH returns the same payload for each id.
C17_SnapshotEqualsLog ==
    LET withSnaps == new(disk, snaps, now)
        fromLog == new(disk, EmptyMap, now)
    IN  /\ ~withSnaps.panicked /\ ~fromLog.panicked
        /\ Dataset(withSnaps.st, now).indexes = Dataset(fromLog.st, now).indexes
        /\ \A q \in {Vec10, Vec01} :
               Found(withSnaps.st, Name, q, now) = Found(fromLog.st, Name, q, now)

\* A snapshot of index i taken by COMPACT holds another vector for id 1 than
\* the index does now, VEC.ADD having been run on the snapshotted name since,
\* and a restart finds id 1 and its payload.
C17_Witness ==
    /\ Has(snaps, Name) /\ Has(snaps[Name].vectors, 1)
    /\ Has(vectors, Name) /\ Has(vectors[Name].vectors, 1)
    /\ snaps[Name].vectors[1] # vectors[Name].vectors[1]
    /\ Has(new(disk, snaps, now).st.vectors[Name].vectors, 1)
    /\ Found(new(disk, snaps, now).st, Name, Vec10, now)
           = {Array(Some(<<Integer(1), Bulk(Some(Doc2))>>))}

(***************************************************************************)
(* The store searched: two ids in one index, one of them added again with  *)
(* another vector, the payload key of one deleted, that of the other given *)
(* a deadline.                                                             *)
(***************************************************************************)
Vec11 == <<"1", ",", "1">>
One == <<"1">>

CmdsSearch ==
    {<<K_VEC_CREATE, Name, Two, Four, Ten>>,
     <<K_VEC_ADD, Name, Id1, Vec10, Doc1>>, <<K_VEC_ADD, Name, Id2, Vec11, Doc2>>,
     <<K_VEC_ADD, Name, Id1, Vec01, Doc1>>, <<K_DEL, DocKey(1)>>,
     <<K_PEXPIRE, DocKey(2), Ms500>>, <<K_VEC_SEARCH, Name, Vec10, One, Ten>>}

CallSearch ==
    \E argv \in CmdsSearch : ExecutedCompact(argv, execute(St, argv, now))

NextSearch == CallSearch \/ Sweep \/ Tick \/ Restart

SpecSearch == InitStore /\ [][NextSearch]_vars

\* Whether the reply rep answers a search of index idx for the query q (as
\* written) and k as C19 says: an Array of at most k (id, payload) pairs, each
\* id a member of the index with the string value doc:<id> has in the store st
\* at time t as payload (None when the key is absent or past its deadline), and they the nearest ids to q by the vectors the index holds
\* for them, nearest first.
SearchAnswer(st, idx, q, k, rep, t) ==
    LET vq == ParseVec(q)
        Vec(id) == idx.vectors[id]
        Payload(id) ==
            IF LiveString(st, DocKey(id), t) THEN Some(st.store[DocKey(id)].v[1])
            ELSE None
    IN  /\ rep.t = "Array" /\ IsSome(rep.v)
        /\ LET pairs == rep.v[1]
               n == Len(pairs)
               Id(i) == pairs[i].v[1][1].v[1]
           IN  /\ n <= k
               /\ \A i \in 1..n :
                      /\ Has(idx.vectors, Id(i))
                      /\ pairs[i] = Array(Some(<<Integer(Id(i)),
                                                 Bulk(Payload(Id(i)))>>))
               /\ \A i \in 1..n : \A j \in (i + 1)..n :
                      ~Nearer(Vec(Id(j)), Vec(Id(i)), vq)
               /\ \A i \in 1..n :
                      \A id \in (DOMAIN idx.vectors) \ {Id(j) : j \in 1..n} :
                          ~Nearer(Vec(id), Vec(Id(i)), vq)

\* C19: VEC.SEARCH on an existing index with a query of its dimension
\* returns at most k (id, payload) pairs, nearest first, every id a member
\* of the index and every payload the current string value of doc:<id>.
C19_SearchNearestFirst ==
    Has(vectors, Name) =>
        \A q \in {Vec10, Vec01, Vec11} : \A k \in {One, Two} :
            LET r == execute(St, <<K_VEC_SEARCH, Name, q, k, Ten>>, now)
            IN  /\ IsSome(r.reply)
                /\ SearchAnswer(St, vectors[Name], q, ParseUsize(k)[1],
                                r.reply[1], now)

\* The scenario of C19: with ids 1 = (1,0) and 2 added once each, the search
\* for (1,0) with k = 1 returns exactly [(1, payload of 1)].
C19_Scenario ==
    (/\ Has(vectors, Name)
     /\ vectors[Name].world = <<<<1, ParseVec(Vec10)>>, <<2, ParseVec(Vec11)>>>>
     /\ vectors[Name].vectors[1] = ParseVec(Vec10)
     /\ Has(store, DocKey(1)))
        => Reply(<<K_VEC_SEARCH, Name, Vec10, One, Ten>>)
               = Some(Array(Some(<<Array(Some(<<Integer(1), Bulk(Some(Doc1))>>))>>)))

(***************************************************************************)
(* Publish and subscribe: receivers handed out by Redis::subscribe, the    *)
(* PUBLISH command, and the receivers' calls of recv.                      *)
(***************************************************************************)
Chan2 == <<"d">>
CmdsPubSub == {<<K_PUBLISH, Chan, V1>>, <<K_PUBLISH, Chan, V2>>,
               <<K_PUBLISH, Chan2, V1>>}

\* The messages handed to publish on channel ch so far, oldest first.
PublishedOn(ch) ==
    IF Has(heard.published, ch) THEN heard.published[ch] ELSE << >>
PublishedCount ==
    LET RECURSIVE Sum(_)
        Sum(S) == IF S = {} THEN 0
                  ELSE LET c == CHOOSE c \in S : TRUE
                       IN  Len(heard.published[c]) + Sum(S \ {c})
    IN  Sum(DOMAIN heard.published)

\* How many messages published on its channel receiver e has yet to receive.
Behind(e, pub) == Len(pub) - e.from - Len(e.got)

\* A caller obtains a receiver of channel ch (lib.rs:607-616).
Subscribed(ch, r) ==
    /\ Len(heard.rx) < MaxSubs
    /\ CanLock(St, "pubsub")
    /\ Install(r.st)
    /\ heard' = [heard EXCEPT !.rx =
                    Append(@, [h |-> r.rx, from |-> Len(PublishedOn(ch)),
                               got |-> << >>, lagged |-> FALSE,
                               late |-> FALSE, open |-> TRUE])]
    /\ UNCHANGED <<sweeper, now, last, given>>
    /\ UNCHANGED codecVars
    /\ UNCHANGED sideVars
Subscribe(ch) == Subscribed(ch, subscribe(St, ch))

\* A client runs PUBLISH. A receiver left more than the capacity behind by
\* it is marked late from then on.
PublishedBy(argv, r) ==
    /\ PublishedCount < MaxPub
    /\ Recorded(argv, r)
    /\ LET pub == Append(PublishedOn(argv[2]), argv[3])
       IN  heard' = [published |-> Put(heard.published, argv[2], pub),
                     rx |-> [k \in 1..Len(heard.rx) |->
                               LET e == heard.rx[k]
                               IN  IF e.h[1] = argv[2] /\ e.open
                                      /\ Behind(e, pub) > ChanCap
                                   THEN [e EXCEPT !.late = TRUE]
                                   ELSE e]]
CallPubSub(argv) == PublishedBy(argv, execute(St, argv, now))

\* Receiver k's call of recv returns (lib.rs:659-671).
Received(k, r) ==
    /\ heard.rx[k].open
    /\ r.v # None
    /\ pubsub' = Put(pubsub, heard.rx[k].h[1], r.tx)
    /\ heard' = IF r.v[1].ok
                THEN [heard EXCEPT !.rx[k].got = Append(@, r.v[1].m)]
                ELSE [heard EXCEPT !.rx[k].lagged = TRUE]
    /\ UNCHANGED <<store, expires, vectors, aof, disk, snaps, poisoned, sweeper,
                   now, last, given>>
    /\ UNCHANGED codecVars
    /\ UNCHANGED sideVars
Recv(k) ==
    Received(k, Receiver_recv(pubsub[heard.rx[k].h[1]], heard.rx[k].h[2]))

\* Receiver k is dropped, as when its connection ends.
Dropped(k, tx) ==
    /\ heard.rx[k].open
    /\ pubsub' = Put(pubsub, heard.rx[k].h[1], tx)
    /\ heard' = [heard EXCEPT !.rx[k].open = FALSE]
    /\ UNCHANGED <<store, expires, vectors, aof, disk, snaps, poisoned, sweeper,
                   now, last, given>>
    /\ UNCHANGED codecVars
    /\ UNCHANGED sideVars
Drop(k) ==
    Dropped(k, Receiver_drop(pubsub[heard.rx[k].h[1]], heard.rx[k].h[2]))

NextPubSub ==
    \/ \E ch \in {Chan, Chan2} : Subscribe(ch)
    \/ \E argv \in CmdsPubSub : CallPubSub(argv)
    \/ \E k \in 1..Len(heard.rx) : Recv(k)
    \/ \E k \in 1..Len(heard.rx) : Drop(k)

SpecPubSub == InitStore /\ [][NextPubSub]_vars

\* What receiver e has received is what was published on its channel since
\* subscribe handed it out, in that order and each once; its next recv gives
\* the next of them, and waits when there is none.
InOrderOnce(e) ==
    LET pub == PublishedOn(e.h[1])
        next == Receiver_recv(pubsub[e.h[1]], e.h[2]).v
    IN  /\ ~e.lagged
        /\ Behind(e, pub) >= 0
        /\ e.got = SubSeq(pub, e.from + 1, e.from + Len(e.got))
        /\ e.open =>
             next = IF Behind(e, pub) > 0
                    THEN Some([ok |-> TRUE, m |-> pub[e.from + Len(e.got) + 1]])
                    ELSE None

\* C20: a receiver obtained from subscribe(ch) receives every message
\* published on ch afterwards exactly once and in publish order, as long as
\* it was never more than the channel capacity behind, and never receives a
\* message published on another channel.
C20_PubSubDelivery ==
    \A k \in 1..Len(heard.rx) : ~heard.rx[k].late => InOrderOnce(heard.rx[k])

\* Two receivers on different channels, each with everything published on
\* its own channel and nothing else.
C20_Witness ==
    \E k, j \in 1..Len(heard.rx) :
        /\ heard.rx[k].h[1] = Chan /\ heard.rx[j].h[1] = Chan2
        /\ ~heard.rx[k].late /\ ~heard.rx[j].late
        /\ heard.rx[k].got = <<V1, V2>>
        /\ heard.rx[j].got = <<V1>>
        /\ PublishedOn(Chan) = <<V1, V2>>
        /\ PublishedOn(Chan2) = <<V1>>

\* A receiver left more than the capacity behind is told so by recv and has
\* lost the oldest messages.
C20_LateReceiverLags ==
    \A k \in 1..Len(heard.rx) :
        LET e == heard.rx[k]
        IN  (e.late /\ e.open /\ e.got = << >> /\ ~e.lagged)
                => Receiver_recv(pubsub[e.h[1]], e.h[2]).v
                       = Some([ok |-> FALSE, m |-> << >>])

\* The receivers of channel ch handed out by subscribe and not yet dropped.
Attached(ch) ==
    Cardinality({k \in 1..Len(heard.rx) :
                    heard.rx[k].h[1] = ch /\ heard.rx[k].open})
Chan3 == <<"e">>

\* C21: publish(ch, m) returns the number of receivers attached to ch, which
\* is 0, and no error, when ch was never subscribed to or all its receivers
\* were dropped; and it adds no channel to the registry.
C21_PublishCountsReceivers ==
    \A ch \in {Chan, Chan2, Chan3} : \A m \in {V1, V2} :
        /\ publish(St, ch, m).n = Attached(ch)
        /\ DOMAIN publish(St, ch, m).st.pubsub = DOMAIN pubsub
        /\ execute(St, <<K_PUBLISH, ch, m>>, now).reply
               = Some(Integer(Attached(ch)))
        /\ DOMAIN execute(St, <<K_PUBLISH, ch, m>>, now).st.pubsub
               = DOMAIN pubsub

\* PUBLISH has answered 0 on a channel whose receivers were all dropped.
C21_Witness ==
    /\ last # None
    /\ last[1].argv[2] = Chan
    /\ last[1].reply = Some(Integer(0))
    /\ Has(pubsub, Chan)
    /\ ~Has(pubsub, Chan2)
    /\ Attached(Chan) = 0
    /\ \E k \in 1..Len(heard.rx) : Len(heard.rx[k].got) = 1

(***************************************************************************)
(* lib.rs:638-690, handle_socket: one connection. `out` lists the replies  *)
(* written to the socket, each as the message whose encoding was written.  *)
(***************************************************************************)
K_SUBSCRIBE == <<"S", "U", "B", "S", "C", "R", "I", "B", "E">>
ProtocolError == ErrText(<<"p", "r", "o", "t", "o", "c", "o", "l">>)
SubscribeAck(ch) ==
    Array(Some(<<Bulk(Some(<<"s", "u", "b", "s", "c", "r", "i", "b", "e">>)),
                 Bulk(Some(ch)), Integer(1)>>))

Conn(st, buf, out, mode) == [st |-> st, buf |-> buf, out |-> out, mode |-> mode]

\* The `while let Ok((msg, used)) = Resp::parse(&buf)` loop at lib.rs:647-687
\* over the buffer, up to the read that follows it. Any Err of parse, be it
\* incomplete or malformed data, ends the loop with the buffer as it is.
RECURSIVE serve(_, _, _, _)
served_execute(e, remaining, out, t) ==
    IF e.panicked THEN Conn(e.st, remaining, out, "dead")
    ELSE serve(e.st, remaining, Append(out, e.reply[1]), t)

served_array(st, parts, remaining, out, t) ==
    IF Len(parts) >= 1 /\ to_uppercase(parts[1]) = K_SUBSCRIBE
    THEN IF Len(parts) >= 2
         THEN IF ~CanLock(st, "pubsub") THEN Conn(st, remaining, out, "dead")
              ELSE Conn(subscribe(st, parts[2]).st, remaining,
                        Append(out, SubscribeAck(parts[2])), "push")
         ELSE serve(st, remaining, out, t)
    ELSE served_execute(execute(st, parts, t), remaining, out, t)

served_frame(st, r, buf, out, t) ==
    IF r.tag = "panic" THEN Conn(st, buf, out, "dead")
    ELSE IF r.tag # "ok" THEN Conn(st, buf, out, "serving")
    ELSE IF r.m[1].t = "Array" /\ IsSome(r.m[1].v)
    THEN served_array(st, [i \in 1..Len(r.m[1].v[1]) |->
                             resp_to_string(r.m[1].v[1][i])],
                      From(buf, r.used), out, t)
    ELSE serve(st, From(buf, r.used), Append(out, ProtocolError), t)

serve(st, buf, out, t) == served_frame(st, parse(buf), buf, out, t)

\* What the client sends: commands, whole and in two pieces, a frame that is
\* no array, and bytes that are no frame at all.
Command(argv) == encode(Array(Some([i \in 1..Len(argv) |-> Bulk(Some(argv[i]))])))
GetA == Command(<<K_GET, KA>>)
NoFrame == <<"?", CR, LF>>
BadLength == <<"$", "x", CR, LF>>
Chunks ==
    {Command(<<K_SET, KA, V1>>), Command(<<K_DEL, KA>>), GetA,
     Slice(GetA, 0, 9), From(GetA, 9), encode(Simple(V1)), NoFrame, BadLength}

\* One read of the socket and the loop over the buffer that follows it.
ReadServed(r) ==
    /\ conn.reads < MaxReads
    /\ Install(r.st)
    /\ conn' = [conn EXCEPT !.buf = r.buf, !.out = r.out, !.mode = r.mode,
                             !.reads = @ + 1]
    /\ UNCHANGED <<sweeper, now, last, given, heard, thr>>
    /\ UNCHANGED codecVars
Read(chunk) ==
    /\ conn.mode = "serving"
    /\ ReadServed(serve(St, conn.buf \o chunk, conn.out, now))

\* read returns 0: the client has closed the connection (lib.rs:643-645).
Hangup ==
    /\ conn.mode = "serving"
    /\ conn' = [conn EXCEPT !.mode = "closed", !.peer = "gone"]
    /\ UNCHANGED <<store, expires, vectors, aof, disk, snaps, pubsub, poisoned,
                   sweeper, now, last, given, heard, thr>>
    /\ UNCHANGED codecVars

NextConn == (\E chunk \in Chunks : Read(chunk)) \/ Hangup

SpecConn == InitStore /\ [][NextConn]_vars

\* C22: while the bytes at the head of a connection's buffer are a malformed
\* frame, the listener is not waiting for more bytes without having written
\* a protocol Error as its last reply.
C22_MalformedGetsError ==
    (conn.mode = "serving" /\ parse(conn.buf).tag = "invalid")
        => (conn.out # << >> /\ conn.out[Len(conn.out)] = ProtocolError)

\* A frame that parses but is no array is answered with the protocol Error.
C22_NonArrayGetsError ==
    [][\A chunk \in {encode(Simple(V1))} :
          (conn.buf = << >> /\ Read(chunk))
              => conn'.out = Append(conn.out, ProtocolError)]_vars

(***************************************************************************)
(* Deadlines set by EXPIRE, across compaction and restart.                 *)
(***************************************************************************)
Sec1 == <<"1">>
CmdsDeadline ==
    {<<K_SET, KA, V1>>, <<K_EXPIRE, KA, Sec1>>, <<K_DEL, KA>>, <<K_TTL, KA>>,
     <<K_COMPACT>>}

CallDeadline ==
    \E argv \in CmdsDeadline : ExecutedCompact(argv, execute(St, argv, now))

NextDeadline == CallDeadline \/ Sweep \/ Tick \/ Restart

SpecDeadline == InitStore /\ [][NextDeadline]_vars

\* Key k carries a deadline set by EXPIRE that has not passed.
Pending(k) ==
    /\ Has(store, k)
    /\ Has(expires, k)
    /\ Has(given, k)
    /\ expires[k] > now

\* In the store r rebuilt from the log, k exists, is volatile, and TTL k is
\* between 0 and the seconds that EXPIRE was given.
DeadlineSurvives(k, r) ==
    /\ ~r.panicked
    /\ Has(r.st.store, k)
    /\ Has(r.st.expires, k)
    /\ \E n \in 0..(given[k] \div MsPerSec) :
          execute(r.st, <<K_TTL, k>>, now).reply = Some(Integer(n))

\* C23: a key with a deadline set by EXPIRE k n that has not passed at
\* shutdown exists in the store rebuilt from the log, is volatile there, and
\* its TTL is between 0 and n.
C23_DeadlineSurvivesRestart ==
    (aof /\ Pending(KA)) => DeadlineSurvives(KA, new(disk, snaps, now))

\* The same while the log still holds the frame of an EXPIRE.
C23_DeadlineSurvivesInLog ==
    (/\ aof
     /\ Pending(KA)
     /\ \E i \in 1..Len(disk) : disk[i] = encode(LogFrame(<<K_EXPIRE, KA, Sec1>>)))
        => DeadlineSurvives(KA, new(disk, snaps, now))

(***************************************************************************)
(* A log that ends in bytes that do not parse: a frame cut short by a      *)
(* crash in the middle of write_all, or bytes that are no frame.           *)
(***************************************************************************)
CmdsCrash == {<<K_SET, KA, V1>>, <<K_SET, KB, V2>>, <<K_DEL, KA>>}

\* What a crash while appending, or a damaged tail, leaves after the frames.
Tails ==
    {Slice(encode(LogFrame(argv)), 0, n) :
        argv \in CmdsCrash, n \in {1, 9}} \cup {NoFrame}

CallCrash == \E argv \in CmdsCrash : Execute(argv)

\* The process dies leaving `tail` at the end of the log, and Redis::new
\* opens the same path again.
TornRestart(tail) ==
    /\ Len(disk) < MaxLog
    /\ Restarted(new(Append(disk, tail), snaps, now))

NextCrash == CallCrash \/ (\E tail \in Tails : TornRestart(tail)) \/ Restart

SpecCrash == InitStore /\ [][NextCrash]_vars

WellFormed(d) == parse_stream(ReadToEnd(d)).tag = "ok"

\* C30: when the log is n well-formed frames followed by bytes that do not
\* parse, replay applies the n commands in file order and stops there: the
\* store it builds is the one built from the n frames alone.
C30_ReplayStopsAtCorruption ==
    (aof /\ WellFormed(disk)) =>
        \A tail \in Tails :
            /\ ~WellFormed(Append(disk, tail))
            /\ ~new(Append(disk, tail), snaps, now).panicked
            /\ new(Append(disk, tail), snaps, now).st.store
                   = new(disk, snaps, now).st.store

\* A log that does not parse to its end is not replayed at all.
C30_CorruptLogIgnored ==
    aof => \A tail \in Tails :
              new(Append(disk, tail), snaps, now).st.store = EmptyMap

(***************************************************************************)
(* The sweeper thread under fair scheduling.                               *)
(***************************************************************************)
SpecFair == Spec /\ WF_vars(Sweep)
SpecDeadlineFair == SpecDeadline /\ WF_vars(Sweep)

\* The keys whose deadline is at or before now.
Overdue == {k \in DOMAIN expires : expires[k] <= now}

\* A pass of the sweeper takes the overdue keys, and no other, out of both
\* tables in one step.
SweptExactly ==
    /\ DOMAIN expires' = (DOMAIN expires) \ Overdue
    /\ DOMAIN store' = (DOMAIN store) \ Overdue
    /\ \A k \in DOMAIN expires' : expires'[k] = expires[k]
    /\ \A k \in DOMAIN store' : store'[k] = store[k]

\* C29: each pass of the sweeper removes from the expiration table and the
\* key space exactly the keys whose deadline is at or before now, and under
\* fair scheduling of the sweeper a key whose deadline has passed does not
\* stay in the tables for ever.
C29_SweeperRemovesOverdue ==
    /\ [][Sweep => (sweeper' => SweptExactly)]_vars
    /\ \A k \in {KA, KB} : (k \in Overdue) ~> (k \notin Overdue)

\* A pass that runs to its end removes exactly the overdue keys.
C29_PassIsExact == [][Sweep => (sweeper' => SweptExactly)]_vars

\* Once a mutex is poisoned the sweeper thread ends at its next pass, and an
\* overdue key then stays.
C29_SweeperDiesOfPoison ==
    [][(Sweep /\ poisoned # {}) => (~sweeper' /\ Overdue' = Overdue)]_vars

(***************************************************************************)
(* Threads. A command run by a client thread, a pass of the sweeper and a  *)
(* compaction are sequences of steps; one step is what the thread does     *)
(* from taking one lock to dropping it, or up to where it waits for the    *)
(* next lock while still holding the first. `pc` names the step a thread   *)
(* is about to take.                                                       *)
(***************************************************************************)
\* A faulty VEC.SEARCH that takes the guard of `store` before that of
\* `vectors`, against the order of VEC.ADD and compact.
SearchLocksStoreFirst(pc) ==
    IF pc = "vs_vectors"
    THEN [entry |-> {}, acquire |-> {"store"}]
    ELSE [entry |-> {"store"}, acquire |-> {"vectors"}]

\* The guards of VEC.SEARCH (lib.rs:439-473): that of `vectors` first, and
\* that of `store` while it is held, the order of VEC.ADD and compact.
SearchLocks(pc) ==
    IF pc = "vs_vectors"
    THEN [entry |-> {}, acquire |-> {"vectors"}]
    ELSE [entry |-> {"vectors"}, acquire |-> {"store"}]

\* The locks a thread holds when it is about to take step pc, and the lock
\* the step takes: the guards alive at each lock() of lib.rs.
LockPlan(pc) ==
    CASE pc \in {"vs_vectors", "vs_store"} -> SearchLocks(pc)
      [] pc = "sw_expires" -> [entry |-> {}, acquire |-> {"expires"}]
      [] pc = "sw_store" -> [entry |-> {"expires"}, acquire |-> {"store"}]
      [] pc \in {"cl_expires", "set_expires", "del_expires", "exp_expires",
                 "ttl_expires"} -> [entry |-> {}, acquire |-> {"expires"}]
      [] pc \in {"cl_store", "set_store", "get_store", "del_store",
                 "exp_store", "hset_store", "ttl_store", "c_store"} ->
            [entry |-> {}, acquire |-> {"store"}]
      [] pc \in {"log", "c_reopen"} -> [entry |-> {}, acquire |-> {"aof"}]
      [] pc \in {"vc_vectors", "va_vectors", "c_vectors", "c_dump"} ->
            [entry |-> {}, acquire |-> {"vectors"}]
      [] pc \in {"va_store", "c_vec_store"} ->
            [entry |-> {"vectors"}, acquire |-> {"store"}]
      [] pc = "va_log" -> [entry |-> {"vectors"}, acquire |-> {"aof"}]
      [] pc = "pub_pubsub" -> [entry |-> {}, acquire |-> {"pubsub"}]
      [] OTHER -> [entry |-> {}, acquire |-> {}]

\* The locks held by any thread, and whether the step at pc can take its own.
AllHeld ==
    LockPlan(thr.sw.pc).entry
        \cup UNION {LockPlan(thr.t[i].pc).entry : i \in Clients}
Ready(pc) == LockPlan(pc).acquire \cap AllHeld = {}

\* The step a command starts with, and the one that follows cleanup_key.
First(argv) ==
    CASE argv[1] = K_SET -> "set_store"
      [] argv[1] = K_VEC_CREATE -> "vc_vectors"
      [] argv[1] = K_VEC_ADD -> "va_vectors"
      [] argv[1] = K_VEC_SEARCH -> "vs_vectors"
      [] argv[1] = K_COMPACT -> "c_create"
      [] argv[1] = K_PUBLISH -> "pub_pubsub"
      [] OTHER -> "cl_expires"
After(argv) ==
    CASE argv[1] = K_GET -> "get_store"
      [] argv[1] = K_DEL -> "del_store"
      [] argv[1] = K_PEXPIRE -> "exp_store"
      [] argv[1] = K_HSET -> "hset_store"
      [] argv[1] = K_TTL -> "ttl_store"

\* The files of a compaction: the temporary file, and whether the handle in
\* Inner.aof is still on the file that rename has replaced.
Fs == [tmp |-> thr.tmp, stale |-> thr.stale]

\* What a step leaves: the store, the files, and the thread.
Goes(st, fs, th, pc, loc) ==
    [st |-> st, fs |-> fs, th |-> [th EXCEPT !.pc = pc, !.loc = loc]]
Returns(st, fs, th, reply) ==
    [st |-> st, fs |-> fs,
     th |-> [th EXCEPT !.pc = "idle", !.loc = << >>, !.reply = Some(reply)]]

\* Redis::log through the handle in Inner.aof: bytes written through a handle
\* on the replaced file do not reach the file at aof_path.
Logged(st, fs, cmd) ==
    IF st.aof /\ ~fs.stale
    THEN [st EXCEPT !.disk = Append(@, encode(LogFrame(cmd)))]
    ELSE st

\* cleanup_key and the string and deadline commands, step by step.
RunKey(st, fs, th, t) ==
    LET key == th.argv[2]
    IN  CASE th.pc = "cl_expires" ->
               IF Has(st.expires, key) /\ t >= st.expires[key]
               THEN Goes([st EXCEPT !.expires = Del(@, key)], fs, th,
                         "cl_store", << >>)
               ELSE Goes(st, fs, th, After(th.argv), << >>)
          [] th.pc = "cl_store" ->
               Goes([st EXCEPT !.store = Del(@, key)], fs, th,
                    After(th.argv), << >>)
          [] th.pc = "set_store" ->
               Goes([st EXCEPT !.store = Put(@, key, VString(th.argv[3]))],
                    fs, th, "set_expires", << >>)
          [] th.pc = "set_expires" ->
               Goes([st EXCEPT !.expires = Del(@, key)], fs, th, "log", OK)
          [] th.pc = "get_store" ->
               Returns(st, fs, th,
                       IF Has(st.store, key) /\ st.store[key].t = "String"
                       THEN Bulk(Some(st.store[key].v[1])) ELSE Bulk(None))
          [] th.pc = "del_store" ->
               IF Has(st.store, key)
               THEN Goes([st EXCEPT !.store = Del(@, key)], fs, th,
                         "del_expires", << >>)
               ELSE Goes(st, fs, th, "log", Integer(0))
          [] th.pc = "del_expires" ->
               Goes([st EXCEPT !.expires = Del(@, key)], fs, th, "log",
                    Integer(1))
          [] th.pc = "exp_store" ->
               IF Has(st.store, key)
               THEN Goes(st, fs, th, "exp_expires", << >>)
               ELSE Returns(st, fs, th, Integer(0))
          [] th.pc = "exp_expires" ->
               Goes([st EXCEPT !.expires =
                       Put(@, key,
                           InstantAdd(t, DurationFromMillis(
                               unwrap_or(ParseI64(th.argv[3]), 0)))[1])],
                    fs, th, "log", Integer(1))
          [] th.pc = "hset_store" ->
               LET isHash == Has(st.store, key) /\ st.store[key].t = "Hash"
                   h == IF isHash THEN st.store[key].v[1] ELSE EmptyMap
               IN  Goes([st EXCEPT !.store =
                           Put(@, key, VHash(Put(h, th.argv[3], th.argv[4])))],
                        fs, th, "log",
                        Integer(IF Has(h, th.argv[3]) THEN 0 ELSE 1))
          [] th.pc = "ttl_store" ->
               IF Has(st.store, key) THEN Goes(st, fs, th, "ttl_expires", << >>)
               ELSE Returns(st, fs, th, Integer(-2))
          [] th.pc = "ttl_expires" ->
               Returns(st, fs, th,
                       IF Has(st.expires, key)
                       THEN Integer(SecsLeft(st.expires[key], t))
                       ELSE Integer(-1))
          [] th.pc = "log" ->
               Returns(Logged(st, fs, th.argv), fs, th, th.loc)
          [] th.pc = "pub_pubsub" ->
               Returns(publish(st, key, th.argv[3]).st, fs, th,
                       Integer(publish(st, key, th.argv[3]).n))

\* VEC.CREATE, VEC.ADD and VEC.SEARCH, step by step.
RunVec(st, fs, th, t) ==
    LET name == th.argv[2]
    IN  CASE th.pc = "vc_vectors" ->
               LET idx == IndexNew(unwrap_or(ParseUsize(th.argv[3]), 0),
                                   unwrap_or(ParseUsize(th.argv[4]), 0),
                                   unwrap_or(ParseUsize(th.argv[5]), 0))
               IN  IF IsSome(idx)
                   THEN Goes([st EXCEPT !.vectors = Put(@, name, idx[1])],
                             fs, th, "log", OK)
                   ELSE Returns(st, fs, th, WorldError)
          [] th.pc = "va_vectors" ->
               IF ~Has(st.vectors, name) THEN Returns(st, fs, th, NoSuchIndex)
               ELSE LET added == IndexAdd(st.vectors[name],
                                          unwrap_or(ParseU32(th.argv[3]), 0),
                                          ParseVec(th.argv[4]))
                    IN  IF IsSome(added)
                        THEN Goes([st EXCEPT !.vectors = Put(@, name, added[1])],
                                  fs, th, "va_store", << >>)
                        ELSE Returns(st, fs, th, DimensionMismatch)
          [] th.pc = "va_store" ->
               Goes([st EXCEPT !.store =
                       Put(@, DocKey(unwrap_or(ParseU32(th.argv[3]), 0)),
                           VString(th.argv[5]))],
                    fs, th, "va_log", << >>)
          [] th.pc = "va_log" ->
               Returns(Logged(st, fs, th.argv), fs, th, OK)
          [] th.pc = "vs_vectors" ->
               IF ~Has(st.vectors, name) THEN Returns(st, fs, th, NoSuchIndex)
               ELSE LET k == unwrap_or(ParseUsize(th.argv[4]), 0)
                        ids == IndexSearch(st.vectors[name], ParseVec(th.argv[3]),
                                           k, unwrap_or(ParseUsize(th.argv[5]), k))
                    IN  IF IsSome(ids) THEN Goes(st, fs, th, "vs_store", ids[1])
                        ELSE Returns(st, fs, th, DimensionMismatch)
          [] th.pc = "vs_store" ->
               Returns(st, fs, th,
                       Array(Some([i \in 1..Len(th.loc) |->
                          Array(Some(<<Integer(th.loc[i]),
                             Bulk(IF /\ Has(st.store, DocKey(th.loc[i]))
                                     /\ st.store[DocKey(th.loc[i])].t = "String"
                                  THEN Some(st.store[DocKey(th.loc[i])].v[1])
                                  ELSE None)>>))])))

\* Redis::compact, step by step (lib.rs:513-605). Two compactions at once
\* share the one temporary file: what both write is taken to end up in it one
\* after the other, and the rename of the second, which finds no temporary
\* file any more, fails and is ignored as lib.rs:590 ignores it.
RunCompact(st, fs, th, t) ==
    CASE th.pc = "c_create" ->
           Goes(st, [fs EXCEPT !.tmp = Some(<< >>)], th, "c_store", << >>)
      [] th.pc = "c_store" ->
           Goes(st, [fs EXCEPT !.tmp =
                       Some(unwrap_or(fs.tmp, << >>) \o CompactSets(st))],
                th, "c_vectors", << >>)
      [] th.pc = "c_vectors" -> Goes(st, fs, th, "c_vec_store", << >>)
      [] th.pc = "c_vec_store" ->
           Goes(st, [fs EXCEPT !.tmp =
                       Some(unwrap_or(fs.tmp, << >>) \o CompactVectors(st))],
                th, "c_rename", << >>)
      [] th.pc = "c_rename" ->
           IF IsSome(fs.tmp)
           THEN Goes([st EXCEPT !.disk = fs.tmp[1]],
                     [tmp |-> None, stale |-> st.aof], th, "c_reopen", << >>)
           ELSE Goes(st, fs, th, "c_reopen", << >>)
      [] th.pc = "c_reopen" ->
           Goes([st EXCEPT !.aof = TRUE], [fs EXCEPT !.stale = FALSE], th,
                "c_dump", << >>)
      [] th.pc = "c_dump" ->
           Returns([st EXCEPT !.snaps =
                      [n \in (DOMAIN @) \cup (DOMAIN st.vectors) |->
                          IF Has(st.vectors, n) THEN st.vectors[n] ELSE @[n]]],
                   fs, th, OK)

Run(st, fs, th, t) ==
    IF th.pc \in {"vc_vectors", "va_vectors", "va_store", "va_log",
                  "vs_vectors", "vs_store"}
    THEN RunVec(st, fs, th, t)
    ELSE IF th.pc \in {"c_create", "c_store", "c_vectors", "c_vec_store",
                       "c_rename", "c_reopen", "c_dump"}
    THEN RunCompact(st, fs, th, t)
    ELSE RunKey(st, fs, th, t)

\* The commands that write to key k.
Mutates(argv, k) ==
    /\ argv # << >>
    /\ argv[1] \in {K_SET, K_DEL, K_PEXPIRE, K_HSET}
    /\ argv[2] = k

\* The client threads other than i that are in the middle of a command that
\* writes to KA.
Writers(i) ==
    {j \in Clients \ {i} : thr.t[j].pc # "idle" /\ Mutates(thr.t[j].argv, KA)}

\* Client thread i takes up the command argv. `clash` collects the threads
\* whose write to KA has run at the same time as another thread's.
Begin(i, argv) ==
    /\ thr.t[i].pc = "idle"
    /\ thr.t[i].left > 0
    /\ thr' = [thr EXCEPT
                 !.t[i] = [pc |-> First(argv), argv |-> argv, loc |-> << >>,
                           left |-> thr.t[i].left - 1, reply |-> None],
                 !.ack = IF Mutates(argv, KA) THEN None ELSE @,
                 !.clash = IF Mutates(argv, KA) /\ Writers(i) # {}
                           THEN @ \cup Writers(i) \cup {i} ELSE @]
    /\ UNCHANGED <<store, expires, vectors, aof, disk, snaps, pubsub, poisoned,
                   sweeper, now, last, given, heard, conn>>
    /\ UNCHANGED codecVars

\* Client thread i takes its next step. When a SET of KA returns that no
\* other write to KA has run beside, `ack` notes the value it was told is set.
Stepped(i, r) ==
    /\ Install(r.st)
    /\ thr' = [thr EXCEPT
                 !.t[i] = r.th, !.tmp = r.fs.tmp, !.stale = r.fs.stale,
                 !.ack = IF r.th.pc = "idle" /\ r.th.argv[1] = K_SET
                            /\ r.th.argv[2] = KA
                         THEN IF i \in thr.clash THEN None
                              ELSE Some(r.th.argv[3])
                         ELSE @,
                 !.clash = IF r.th.pc = "idle" THEN @ \ {i} ELSE @]
    /\ UNCHANGED <<sweeper, now, last, given, heard, conn>>
    /\ UNCHANGED codecVars
Step(i) ==
    /\ thr.t[i].pc # "idle"
    /\ Ready(thr.t[i].pc)
    /\ Stepped(i, Run(St, Fs, thr.t[i], now))

\* The sweeper thread (lib.rs:93-107): it reads the clock, takes the guard of
\* `expires`, then that of `store`, and removes the overdue keys from both.
SweeperStep ==
    /\ Ready(thr.sw.pc)
    /\ CASE thr.sw.pc = "sleep" ->
              /\ thr' = [thr EXCEPT !.sw = [pc |-> "sw_expires", at |-> now]]
              /\ UNCHANGED <<store, expires>>
         [] thr.sw.pc = "sw_expires" ->
              /\ thr' = [thr EXCEPT !.sw.pc = "sw_store"]
              /\ UNCHANGED <<store, expires>>
         [] thr.sw.pc = "sw_store" ->
              LET keys == {k \in DOMAIN expires : expires[k] <= thr.sw.at}
              IN  /\ expires' = [k \in (DOMAIN expires) \ keys |-> expires[k]]
                  /\ store' = [k \in (DOMAIN store) \ keys |-> store[k]]
                  /\ thr' = [thr EXCEPT !.sw.pc = "sleep"]
    /\ UNCHANGED <<vectors, aof, disk, snaps, pubsub, poisoned, sweeper, now,
                   last, given, heard, conn>>
    /\ UNCHANGED codecVars

\* Time passes while the threads are at work.
TickThreads ==
    /\ now + TickMs <= MaxSec * MsPerSec
    /\ now' = now + TickMs
    /\ UNCHANGED <<store, expires, vectors, aof, disk, snaps, pubsub, poisoned,
                   sweeper, last, given, heard, conn, thr>>
    /\ UNCHANGED codecVars

\* No command, pass or compaction is in progress.
Quiescent ==
    /\ \A i \in Clients : thr.t[i].pc = "idle"
    /\ thr.sw.pc = "sleep"

(***************************************************************************)
(* Two clients writing to the same key.                                    *)
(***************************************************************************)
CmdsOrder == {<<K_SET, KA, V1>>, <<K_SET, KA, V2>>}

NextOrder ==
    \/ \E i \in Clients : \E argv \in CmdsOrder : Begin(i, argv)
    \/ \E i \in Clients : Step(i)

SpecOrder == InitStore /\ [][NextOrder]_vars

\* C25: the frames of mutating commands run by different connections on the
\* same key are in the log in the order in which their effects were applied
\* in memory, so that once the commands have returned, replaying the log
\* gives the key the value it has in memory.
C25_LogOrderIsApplicationOrder ==
    (Quiescent /\ aof /\ Has(store, KA)) =>
        /\ Has(new(disk, snaps, now).st.store, KA)
        /\ new(disk, snaps, now).st.store[KA] = store[KA]

\* Commands that do not overlap are logged in the order they were applied.
C25_OneAtATime ==
    (/\ Quiescent /\ aof /\ Has(store, KA)
     /\ \A i \in Clients \ {1} : thr.t[i].left = MaxCalls)
        => new(disk, snaps, now).st.store = store

(***************************************************************************)
(* A compaction on one connection while another writes.                    *)
(***************************************************************************)
CmdsWrite == {<<K_SET, KA, V1>>, <<K_SET, KB, V2>>}

BeginCompact == Begin(1, <<K_COMPACT>>)

NextCompactRace ==
    \/ BeginCompact
    \/ \E argv \in CmdsWrite : Begin(2, argv)
    \/ \E i \in Clients : Step(i)

SpecCompactRace == InitStore /\ [][NextCompactRace]_vars

\* C24: whatever the interleaving of a COMPACT with mutating commands of
\* other connections, once they have returned every acknowledged write is in
\* the store rebuilt from the log at the next restart.
C24_CompactKeepsAcknowledgedWrites ==
    (Quiescent /\ aof) =>
        \A k \in DOMAIN store :
            /\ Has(new(disk, snaps, now).st.store, k)
            /\ new(disk, snaps, now).st.store[k] = store[k]

\* Writes made while no compaction has been started are all in the log.
C24_NoCompactionNoLoss ==
    (Quiescent /\ aof /\ thr.t[1].left = MaxCalls)
        => new(disk, snaps, now).st.store = store

(***************************************************************************)
(* Clients, deadlines and the sweeper at once.                             *)
(***************************************************************************)
CmdsRace ==
    {<<K_SET, KA, V1>>, <<K_PEXPIRE, KA, Ms500>>, <<K_DEL, KA>>, <<K_GET, KA>>,
     <<K_HSET, KA, FieldF, V1>>}

NextRace ==
    \/ \E i \in Clients : \E argv \in CmdsRace : Begin(i, argv)
    \/ \E i \in Clients : Step(i)
    \/ SweeperStep
    \/ TickThreads

SpecRace == InitStore /\ [][NextRace]_vars

\* C26: once SET k v has returned OK, and until a later command writes to k,
\* k holds v and has no deadline, whatever a sweeper pass or another
\* connection's lazy cleanup of k's earlier deadline did meanwhile.
C26_SetSurvivesExpiry ==
    thr.ack # None =>
        /\ Has(store, KA)
        /\ store[KA] = VString(thr.ack[1])
        /\ ~Has(expires, KA)

\* The same when k had no deadline that had passed while SET ran: there is
\* nothing for the sweeper or a lazy cleanup to remove.
C26_SetSurvivesWithoutOverdue ==
    (thr.ack # None /\ now < ParseI64(Ms500)[1]) =>
        /\ Has(store, KA)
        /\ store[KA] = VString(thr.ack[1])
        /\ ~Has(expires, KA)

\* C28: whenever no command is in progress, every key of the expiration
\* table is in the key space.
C28_DeadlinesOnlyOnKeys == Quiescent => DOMAIN expires \subseteq DOMAIN store

\* The same holds while only one connection has issued commands.
C28_OneConnection ==
    (Quiescent /\ \A i \in Clients \ {1} : thr.t[i].left = MaxCalls)
        => DOMAIN expires \subseteq DOMAIN store

(***************************************************************************)
(* Every kind of lock at once: vector commands, compaction, deadlines,     *)
(* publish and the sweeper.                                                *)
(***************************************************************************)
CmdsLocks ==
    {<<K_VEC_CREATE, Name, Two, Four, Ten>>,
     <<K_VEC_ADD, Name, Id1, Vec10, Doc1>>,
     <<K_VEC_SEARCH, Name, Vec10, One, Ten>>,
     <<K_SET, DocKey(1), V1>>, <<K_GET, DocKey(1)>>, <<K_DEL, DocKey(1)>>,
     <<K_TTL, DocKey(1)>>, <<K_PEXPIRE, DocKey(1), Ms500>>,
     <<K_PUBLISH, Chan, V1>>, <<K_COMPACT>>}

NextLocks ==
    \/ \E i \in Clients : \E argv \in CmdsLocks : Begin(i, argv)
    \/ \E i \in Clients : Step(i)
    \/ SweeperStep

SpecLocks == InitStore /\ [][NextLocks]_vars

\* The threads, the sweeper being thread 0, and the step each is about to take.
Threads == Clients \cup {0}
PcOf(x) == IF x = 0 THEN thr.sw.pc ELSE thr.t[x].pc

\* The threads holding a lock that thread x is about to take.
BlockedBy(x) ==
    {y \in Threads :
        LockPlan(PcOf(x)).acquire \cap LockPlan(PcOf(y)).entry # {}}

\* The threads that get their lock once the threads of S have dropped theirs.
RECURSIVE Unblocked(_)
Unblocked(S) ==
    LET more == {x \in Threads : BlockedBy(x) \subseteq S}
    IN  IF more \subseteq S THEN S ELSE Unblocked(S \cup more)

\* C27: no thread waits for ever for a lock: the threads waiting for a lock
\* never wait for one another in a circle (nor a thread for a lock it holds
\* itself), so every command, pass and compaction in progress can run on.
C27_NoDeadlock == Unblocked({}) = Threads

\* A thread waits for the guard of `vectors` that another holds, while the
\* sweeper holds the guard of `expires`.
C27_Witness ==
    /\ thr.sw.pc = "sw_store"
    /\ \E i, j \in Clients :
          /\ thr.t[i].pc \in {"va_store", "va_log"}
          /\ thr.t[j].pc \in {"vs_vectors", "c_vectors", "c_dump"}
          /\ BlockedBy(j) = {i}

(***************************************************************************)
(* A compaction that runs alone, whose writes to the temporary file may    *)
(* fail, and a crash of the process at any step.                           *)
(***************************************************************************)
CmdsAtomic == {<<K_SET, KA, V1>>, <<K_SET, KB, V2>>, <<K_COMPACT>>}

CompactPcs ==
    {"c_create", "c_store", "c_vectors", "c_vec_store", "c_rename",
     "c_reopen", "c_dump"}

\* The loop over the store (lib.rs:524-537) when write_all fails after n
\* frames: `let _ =` drops the error and compact goes on.
RunCompactShort(st, fs, th, n) ==
    Goes(st, [fs EXCEPT !.tmp = Some(SubSeq(CompactSets(st), 1, n))], th,
         "c_vectors", << >>)

\* A command is taken up while no other is in progress.
BeginAlone(i, argv) == Quiescent /\ Begin(i, argv)

WriteFails(i, n) ==
    /\ thr.t[i].pc = "c_store"
    /\ Ready(thr.t[i].pc)
    /\ n < Len(CompactSets(St))
    /\ Stepped(i, RunCompactShort(St, Fs, thr.t[i], n))

\* The process dies wherever its threads are, and Redis::new opens the log
\* path again: the connections are gone and File::create will truncate what
\* is left of the temporary file.
Crashed(r) ==
    /\ Len(disk) < MaxLog
    /\ ~r.panicked
    /\ Install(r.st)
    /\ sweeper' = TRUE
    /\ last' = None
    /\ thr' = NoThreads
    /\ UNCHANGED <<now, given, heard, conn>>
    /\ UNCHANGED codecVars
Crash == Crashed(new(disk, snaps, now))

NextAtomic ==
    \/ \E i \in Clients : \E argv \in CmdsAtomic : BeginAlone(i, argv)
    \/ \E i \in Clients : Step(i)
    \/ \E i \in Clients : \E n \in 0..1 : WriteFails(i, n)
    \/ Crash

SpecAtomic == InitStore /\ [][NextAtomic]_vars

\* A compaction by thread i is in progress or has just returned.
Compacting(i) ==
    \/ thr.t[i].pc \in CompactPcs
    \/ Quiescent /\ thr.t[i].argv = <<K_COMPACT>>

\* C31: at every step of a COMPACT, and after it, the file at the log path
\* replays to the dataset held before the compaction or to the dataset of the
\* compacted log, also when the process dies there and when a write to the
\* temporary file has failed.
C31_AtomicLogReplacement ==
    \A i \in Clients :
        Compacting(i) =>
            \/ Dataset(Reopened(St, now), now) = Dataset(St, now)
            \/ Dataset(Reopened(St, now), now)
                   = Dataset(Reopened(Compacted(St, 1), now), now)

\* No step of a compaction before the rename changes the file at the log
\* path, whatever happens to the temporary file.
C31_LogUntouchedBeforeRename ==
    [][\A i \in Clients :
          (/\ thr.t[i].pc \in CompactPcs \ {"c_rename", "c_reopen", "c_dump"}
           /\ thr'.t[i].pc \in CompactPcs) => disk' = disk]_vars

\* The string keys for which the log written by a COMPACT of st holds a SET.
SetsWritten(st) ==
    {k \in DOMAIN st.store :
        /\ st.store[k].t = "String"
        /\ \E j \in 1..Len(compact(st).st.disk) :
              compact(st).st.disk[j]
                  = encode(LogFrame(<<K_SET, k, st.store[k].v[1]>>))}

\* C32: a COMPACT run now writes a SET for a string key only if the key is
\* live: a key whose deadline has passed and that is still in the store is
\* not written, and is not in the store rebuilt from the compacted log.
C32_CompactWritesOnlyLive ==
    aof =>
        \A k \in DOMAIN store :
            (store[k].t = "String" /\ ~LiveString(St, k, now)) =>
                /\ k \notin SetsWritten(St)
                /\ ~Has(Reopened(Compacted(St, 1), now).store, k)

\* Every live string key is written.
C32_LiveKeysWritten ==
    aof => \A k \in DOMAIN store : LiveString(St, k, now) => k \in SetsWritten(St)

\* The string keys of st that are live at t and have a deadline.
Volatile(st, t) == {k \in DOMAIN st.store : LiveString(st, k, t) /\ Has(st.expires, k)}

\* C33: a string key with a deadline still to come when COMPACT runs is in
\* the store rebuilt from the compacted log, with a deadline.
C33_CompactKeepsVolatility ==
    aof =>
        \A k \in Volatile(St, now) :
            /\ Has(Reopened(Compacted(St, 1), now).store, k)
            /\ Has(Reopened(Compacted(St, 1), now).expires, k)

\* The key itself is kept, and compaction gives no key a deadline.
C33_CompactKeepsKeyAndPersistence ==
    aof =>
        /\ \A k \in Volatile(St, now) :
               Has(Reopened(Compacted(St, 1), now).store, k)
        /\ Reopened(Compacted(St, 1), now).expires = EmptyMap

\* The vectors of dimension 2 a client adds, as Index::add receives them.
Vecs2 == {ParseVec(Vec10), ParseVec(Vec01), ParseVec(Vec11)}

PushFrame(ch, m) ==
    Array(Some(<<Bulk(Some(<<"m", "e", "s", "s", "a", "g", "e">>)),
                 Bulk(Some(ch)), Bulk(Some(m))>>))

ChunksPush ==
    {Command(<<K_SUBSCRIBE, Chan>>), Command(<<K_SET, KA, V1>>), GetA}

\* One read of the socket and the loop over the buffer; a SUBSCRIBE among the
\* frames leaves the connection with a receiver of the channel.
ReadPushed(r) ==
    /\ conn.reads < MaxReads
    /\ Install(r.st)
    /\ conn' = [conn EXCEPT !.buf = r.buf, !.out = r.out, !.mode = r.mode,
                             !.reads = @ + 1]
    /\ heard' = IF r.mode = "push"
                THEN [heard EXCEPT !.rx =
                        Append(@, [h |-> <<Chan, Len(r.st.pubsub[Chan].rx)>>,
                                   from |-> Len(PublishedOn(Chan)),
                                   got |-> << >>, lagged |-> FALSE,
                                   late |-> FALSE, open |-> TRUE])]
                ELSE heard
    /\ UNCHANGED <<sweeper, now, last, given, thr>>
    /\ UNCHANGED codecVars
ReadPush(chunk) ==
    /\ conn.mode = "serving"
    /\ ReadPushed(serve(St, conn.buf \o chunk, conn.out, now))

\* The client closes its end while the connection is in the forwarding loop,
\* which does not read the socket.
PeerGone ==
    /\ conn.mode = "push"
    /\ conn.peer = "open"
    /\ conn' = [conn EXCEPT !.peer = "gone"]
    /\ UNCHANGED <<store, expires, vectors, aof, disk, snaps, pubsub, poisoned,
                   sweeper, now, last, given, heard, thr>>
    /\ UNCHANGED codecVars

\* rx.recv() of the forwarding loop returns (lib.rs:662-672): a message is
\* written to the socket; when that write fails, or recv returns an Err,
\* handle_socket returns and the receiver is dropped.
Forwarded(r) ==
    /\ conn.mode = "push"
    /\ r.v # None
    /\ IF r.v[1].ok /\ conn.peer = "open"
       THEN /\ pubsub' = Put(pubsub, heard.rx[1].h[1], r.tx)
            /\ heard' = [heard EXCEPT !.rx[1].got = Append(@, r.v[1].m)]
            /\ conn' = [conn EXCEPT
                          !.out = Append(@, PushFrame(heard.rx[1].h[1],
                                                      r.v[1].m))]
       ELSE /\ pubsub' = Put(pubsub, heard.rx[1].h[1],
                             Receiver_drop(r.tx, heard.rx[1].h[2]))
            /\ heard' = [heard EXCEPT !.rx[1].open = FALSE,
                                      !.rx[1].lagged = ~r.v[1].ok]
            /\ conn' = [conn EXCEPT !.mode = "closed"]
    /\ UNCHANGED <<store, expires, vectors, aof, disk, snaps, poisoned, sweeper,
                   now, last, given, thr>>
    /\ UNCHANGED codecVars
Forward ==
    /\ conn.mode = "push"
    /\ Forwarded(Receiver_recv(pubsub[heard.rx[1].h[1]], heard.rx[1].h[2]))

NextPush ==
    \/ \E chunk \in ChunksPush : ReadPush(chunk)
    \/ \E argv \in CmdsPubSub : CallPubSub(argv)
    \/ Forward
    \/ PeerGone

SpecPush == InitStore /\ [][NextPush]_vars

\* The push frames written to the connection since the acknowledgment.
Pushed ==
    LET at == CHOOSE i \in 1..Len(conn.out) : conn.out[i] = SubscribeAck(Chan)
    IN  SubSeq(conn.out, at + 1, Len(conn.out))

\* C35: once SUBSCRIBE is acknowledged the connection goes on forwarding,
\* in publish order, and leaves the loop only when the subscriber has
\* disconnected (the channel itself is never closed): a subscriber left more
\* than the capacity behind stays subscribed.
C35_PushUntilDisconnect ==
    heard.rx # << >> =>
        /\ conn.mode \in {"push", "closed"}
        /\ conn.mode = "closed" => conn.peer = "gone"
        /\ Pushed = [i \in 1..Len(heard.rx[1].got) |->
                        PushFrame(Chan, heard.rx[1].got[i])]
        /\ \E n \in 0..Len(PublishedOn(Chan)) :
              \E m \in n..Len(PublishedOn(Chan)) :
                  heard.rx[1].got = SubSeq(PublishedOn(Chan), n + 1, m)

\* The same for a subscriber that was never more than the capacity behind;
\* the loop it has left without a disconnect is one whose recv lagged.
C35_PushWhileKeepingUp ==
    heard.rx # << >> =>
        /\ conn.mode \in {"push", "closed"}
        /\ (conn.mode = "closed" /\ conn.peer = "open") => heard.rx[1].lagged
        /\ ~heard.rx[1].late =>
              /\ ~heard.rx[1].lagged
              /\ Pushed = [i \in 1..Len(heard.rx[1].got) |->
                              PushFrame(Chan, heard.rx[1].got[i])]
              /\ heard.rx[1].got
                     = SubSeq(PublishedOn(Chan), heard.rx[1].from + 1,
                              heard.rx[1].from + Len(heard.rx[1].got))

\* Nothing that arrives after the acknowledgment is executed: in the loop
\* the key space and the log stay as they are.
C35_NoCommandInPushMode ==
    [][conn.mode = "push" =>
          (store' = store /\ expires' = expires /\ disk' = disk
           /\ conn'.buf = conn.buf /\ conn'.reads = conn.reads)]_vars

\* The forwarding task runs whenever its recv has something to return.
SpecPushFair == SpecPush /\ WF_vars(Forward)

\* C36: once the peer of a subscribed connection has disconnected, the
\* forwarding loop exits and its receiver is released, whether or not
\* anything more is published.
C36_LoopExitsAfterDisconnect ==
    (conn.mode = "push" /\ conn.peer = "gone")
        ~> (conn.mode = "closed" /\ ~heard.rx[1].open)

\* The loop does exit at the first message it has to forward after the
\* disconnect, and the receiver is released with it.
C36_ExitsAtNextMessage ==
    [][(conn.peer = "gone" /\ Forward)
          => (conn'.mode = "closed" /\ ~heard'.rx[1].open
              /\ receiver_count(pubsub'[Chan]) = 0)]_vars

(***************************************************************************)
(* A client whose requests reach the server in pieces of any size.         *)
(***************************************************************************)
Requests ==
    {Command(<<K_SET, KA, V1>>), GetA, Command(<<K_DEL, KA>>),
     Command(<<K_EXPIRE, KA, <<"-", "1">>>>)}

\* What the client sends next: one request, or two back to back.
Streams == Requests \cup {f \o g : f, g \in Requests}

\* Where a read may end: inside a length header, inside a payload, between a
\* payload and its terminator, at and across the end of a request.
Cuts == {1, 9, 19, 20, 27, 30}

\* socket.read returns `chunk` (lib.rs:642-646) and the loop runs over the
\* buffer; `rest` is what the client has not sent yet.
ChunkRead(r, chunk, rest) ==
    /\ conn.reads < MaxChunks
    /\ Install(r.st)
    /\ conn' = [conn EXCEPT !.buf = r.buf, !.out = r.out, !.mode = r.mode,
                             !.reads = @ + 1, !.sent = @ \o chunk,
                             !.todo = rest]
    /\ UNCHANGED <<sweeper, now, last, given, heard, thr>>
    /\ UNCHANGED codecVars
ReadPiece(pending, n) ==
    /\ conn.mode = "serving"
    /\ n <= Len(pending)
    /\ ChunkRead(serve(St, conn.buf \o SubSeq(pending, 1, n), conn.out, now),
                 SubSeq(pending, 1, n), From(pending, n))

\* The first piece of what the client sends next, and a further piece of it.
ReadFirst(stream, n) == conn.todo = << >> /\ ReadPiece(stream, n)
ReadMore(n) == conn.todo # << >> /\ ReadPiece(conn.todo, n)

NextChunk ==
    \/ \E stream \in Streams : \E n \in Cuts : ReadFirst(stream, n)
    \/ \E n \in Cuts : ReadMore(n)

SpecChunk == InitStore /\ [][NextChunk]_vars

\* The store the connection was accepted on.
StoreAtAccept == [Fresh(<< >>, << >>) EXCEPT !.aof = TRUE]

\* The complete frames at the head of a byte string, and what follows them.
RECURSIVE FramesIn(_)
FramesIn(bytes) ==
    IF parse(bytes).tag # "ok" THEN 0
    ELSE 1 + FramesIn(From(bytes, parse(bytes).used))
RECURSIVE AfterFrames(_)
AfterFrames(bytes) ==
    IF parse(bytes).tag # "ok" THEN bytes
    ELSE AfterFrames(From(bytes, parse(bytes).used))

\* C37: however a stream of well-formed command frames is split into reads,
\* the connection has dispatched the same commands as for the stream read at
\* once and has written one reply per complete frame, in order; the bytes of
\* the frame not yet complete are in the buffer, none lost, none read twice.
C37_FramingIndependentOfChunking ==
    conn.sent # << >> =>
        /\ St = serve(StoreAtAccept, conn.sent, << >>, now).st
        /\ conn.out = serve(StoreAtAccept, conn.sent, << >>, now).out
        /\ Len(conn.out) = FramesIn(conn.sent)
        /\ conn.buf = AfterFrames(conn.sent)

\* Splitting the stream changes nothing, and every frame served by a
\* connection still alive has its reply.
C37_SameAsOneRead ==
    conn.sent # << >> =>
        /\ St = serve(StoreAtAccept, conn.sent, << >>, now).st
        /\ conn.out = serve(StoreAtAccept, conn.sent, << >>, now).out
        /\ conn.mode = serve(StoreAtAccept, conn.sent, << >>, now).mode
        /\ conn.buf = serve(StoreAtAccept, conn.sent, << >>, now).buf
        /\ conn.mode = "serving" =>
              /\ Len(conn.out) = FramesIn(conn.sent)
              /\ conn.buf = AfterFrames(conn.sent)

\* The (id, payload) pairs of the reply to a VEC.SEARCH of index i for the
\* two nearest ids, and whether the deadline of key k has passed.
SearchPairs(st, t) ==
    execute(st, <<K_VEC_SEARCH, Name, Vec10, Two, Ten>>, t).reply[1].v[1]
Overdue_at(st, k, t) == Has(st.expires, k) /\ st.expires[k] <= t

\* C38: the key doc:<id> is subject to lazy expiry like any other: VEC.SEARCH
\* returns no payload for an id whose doc:<id> is past its deadline, and
\* after a successful VEC.ADD doc:<id> carries no deadline set before it.
C38_LazyExpiryCoversDocKeys ==
    Has(vectors, Name) =>
        /\ \A i \in 1..Len(SearchPairs(St, now)) :
               Overdue_at(St, DocKey(SearchPairs(St, now)[i].v[1][1].v[1]), now)
                   => SearchPairs(St, now)[i].v[1][2] = Bulk(None)
        /\ \A argv \in {<<K_VEC_ADD, Name, Id2, Vec11, Doc2>>} :
               execute(St, argv, now).reply = Some(OK)
                   => ~Has(execute(St, argv, now).st.expires, DocKey(2))

\* A doc:<id> key that has no deadline is looked up and written as it is.
C38_DocKeysWithoutDeadline ==
    Has(vectors, Name) =>
        /\ \A i \in 1..Len(SearchPairs(St, now)) :
               LET k == DocKey(SearchPairs(St, now)[i].v[1][1].v[1])
               IN  ~Has(expires, k) =>
                      SearchPairs(St, now)[i].v[1][2]
                          = Bulk(IF Has(store, k) /\ store[k].t = "String"
                                 THEN Some(store[k].v[1]) ELSE None)
        /\ \A argv \in {<<K_VEC_ADD, Name, Id2, Vec11, Doc2>>} :
               (execute(St, argv, now).reply = Some(OK)
                    /\ ~Has(expires, DocKey(2)))
                   => /\ ~Has(execute(St, argv, now).st.expires, DocKey(2))
                      /\ execute(St, argv, now).st.store[DocKey(2)]
                             = VString(Doc2)

(***************************************************************************)
(* Two vector indexes in one store.                                        *)
(***************************************************************************)
Name2 == <<"j">>

AddsToSecond ==
    {<<K_VEC_ADD, Name2, Id1, Vec01, Doc2>>, <<K_VEC_ADD, Name2, Id2, Vec10, Doc2>>}

CmdsTwoIndexes ==
    {<<K_VEC_CREATE, Name, Two, Four, Ten>>,
     <<K_VEC_CREATE, Name2, Two, Four, Ten>>,
     <<K_VEC_ADD, Name, Id1, Vec10, Doc1>>,
     <<K_VEC_SEARCH, Name, Vec10, Two, Ten>>} \cup AddsToSecond

CallTwoIndexes ==
    \E argv \in CmdsTwoIndexes : ExecutedCompact(argv, execute(St, argv, now))

NextTwoIndexes == CallTwoIndexes \/ Restart

SpecTwoIndexes == InitStore /\ [][NextTwoIndexes]_vars

\* The reply to a search of the first index of the store st.
SearchFirst(st, t) == execute(st, <<K_VEC_SEARCH, Name, Vec10, Two, Ten>>, t).reply

\* The ids of a search reply, in its order.
IdsFound(reply) ==
    [i \in 1..Len(reply[1].v[1]) |-> reply[1].v[1][i].v[1][1]]

\* C39: a VEC.ADD on one index leaves what VEC.SEARCH on another index
\* returns, ids and payloads, as it was.
C39_IndexIsolation ==
    (Has(vectors, Name) /\ Has(vectors, Name2)) =>
        \A argv \in AddsToSecond :
            SearchFirst(execute(St, argv, now).st, now) = SearchFirst(St, now)

\* The ids a search on the first index returns are left as they were.
C39_IdsIsolated ==
    (Has(vectors, Name) /\ Has(vectors, Name2)) =>
        \A argv \in AddsToSecond :
            IdsFound(SearchFirst(execute(St, argv, now).st, now))
                = IdsFound(SearchFirst(St, now))

(***************************************************************************)
(* The parser on bytes of any kind, as a client or a log file may hold.    *)
(***************************************************************************)
ByteChars == {"$", "*", "-", "1", "2", "9", CR, LF}
ByteStrings == UNION {[1..k -> ByteChars] : k \in 0..MaxBytes}

InitBytes ==
    /\ StoreIdle
    /\ msg = None
    /\ wire \in ByteStrings
    /\ res = None
    /\ cpc = "bytes"

ParseBytes ==
    /\ cpc = "bytes"
    /\ res' = Some(parse(wire))
    /\ cpc' = "parsed_bytes"
    /\ UNCHANGED <<msg, wire>>
    /\ UNCHANGED storeVars

SpecBytes == InitBytes /\ [][ParseBytes]_vars

\* C40: for every byte string parse returns a message and the number of
\* bytes it took, more than none and no more than there are, or fails as
\* incomplete or as malformed; it never panics.
C40_ParserTotal ==
    cpc = "parsed_bytes" =>
        /\ res[1].tag \in {"ok", "eof", "invalid"}
        /\ res[1].tag = "ok" => (0 < res[1].used /\ res[1].used <= Len(wire))

\* It panics only on a bulk or array length header that is negative, and
\* what it returns otherwise is as claimed.
C40_PanicsOnlyOnNegativeLength ==
    cpc = "parsed_bytes" =>
        /\ res[1].tag = "panic" =>
              \E i \in 1..(Len(wire) - 1) :
                  wire[i] \in {"$", "*"} /\ wire[i + 1] = "-"
        /\ res[1].tag = "ok" => (0 < res[1].used /\ res[1].used <= Len(wire))

====
